---- MODULE Spec2Model ----
(***************************************************************************)
(* Model of the tenkit authentication / tenancy core.                      *)
(*                                                                         *)
(*   SpecProv : the provisioning handlers /verify (handlers/verify.go) and *)
(*              /confirm (handlers/confirm.go) running as concurrent       *)
(*              requests against the relational store of db/database.go,   *)
(*              fed by /enroll and /register.                              *)
(*   SpecPipe : one request travelling through the middleware chain that   *)
(*              example/main.go assembles.                                 *)
(*   SpecAuth : requests, one after the other, through the same chain to   *)
(*              the /login, /logout and /reset handlers, with a store that *)
(*              may return errors.                                         *)
(*   SpecResolve, SpecToken : the host resolver and the token codec of     *)
(*              multitenant/utils/token.go on their own.                   *)
(*   SpecConfig : the host resolver under each root domain that            *)
(*              LoadDefaultConfig can configure.                           *)
(*   SpecRate : the RateLimit wrapper on its own, with concurrent requests.*)
(*   SpecReset : /reset/confirm inside its RateLimit wrapper.              *)
(*   SpecRegister : /register statement by statement, concurrent requests  *)
(*              against the same store.                                    *)
(*                                                                         *)
(* Strings that the code transforms (organization names, e-mail addresses, *)
(* subdomains) are sequences of one-character strings, so that ToLower,    *)
(* TrimSpace and ReplaceAll are computed and not assumed.                  *)
(*                                                                         *)
(* The store is the SQLite file opened by db.Init with the default         *)
(* (rollback-journal) locking: a transaction takes a shared lock at its    *)
(* first read, the reserved lock at its first write (a second writer gets  *)
(* SQLITE_BUSY), and a writing transaction commits only when no other      *)
(* connection holds a shared lock.  Uncommitted rows are private to their  *)
(* transaction.                                                            *)
(***************************************************************************)
EXTENDS Integers, Sequences, FiniteSets, TLC

\* ------------------------------------------------------------------ bounds
MaxReqs == 2      \* concurrent /verify and /confirm requests
MaxSignups == 2   \* pending signups ever issued (enroll + register)
MaxTime == 1      \* clock ticks
MaxFaults == 1    \* store statements that fail for an infrastructure reason
MaxSessions == 2  \* rows of the sessions table
MaxHostLen == 7   \* characters of a Host header handed to Resolve
MacLen == 2       \* bytes of a token's MAC (32 for SHA-256)
MaxClock == 3     \* the latest second a token is validated at
MaxVisits == 11   \* requests of one address counted by RateLimit between two resets
MaxSlugLen == 2   \* the longest subdomain requested of a configured root domain

\* 24 hours (enroll.go, register.go) are one clock tick
SignupTTL == 1

\* 24 hours (CreateSession) are one clock tick
SessionTTL == 1

Reqs == 1..MaxReqs

\* ------------------------------------------------------------------ strings
Whitespace == {" ", "\t"}

LowerChar(c) ==
  CASE c = "A" -> "a"
    [] c = "B" -> "b"
    [] c = "C" -> "c"
    [] OTHER -> c

\* strings.ToLower
ToLower(s) == [i \in DOMAIN s |-> LowerChar(s[i])]

\* strings.ReplaceAll(s, " ", "")
RemoveSpaces(s) == SelectSeq(s, LAMBDA c : c # " ")

RECURSIVE TrimLeft(_)
TrimLeft(s) == IF s # << >> /\ Head(s) \in Whitespace THEN TrimLeft(Tail(s)) ELSE s

RECURSIVE TrimRight(_)
TrimRight(s) ==
  IF s # << >> /\ s[Len(s)] \in Whitespace THEN TrimRight(SubSeq(s, 1, Len(s) - 1)) ELSE s

\* strings.TrimSpace
TrimSpace(s) == TrimRight(TrimLeft(s))

AlnumLower == {"a", "b", "c", "0", "1"}

\* subdomainRegex ^[a-z0-9]([a-z0-9\-]{0,61}[a-z0-9])?$
MatchSubdomain(s) ==
  /\ Len(s) >= 1
  /\ Len(s) <= 63
  /\ s[1] \in AlnumLower
  /\ s[Len(s)] \in AlnumLower
  /\ \A i \in DOMAIN s : s[i] \in AlnumLower \cup {"-"}

\* the subdomain /enroll and /confirm derive from an organization name
SubdomainOf(org) == ToLower(RemoveSpaces(org))

\* faulty variant: /verify keeps the capitals
VerifySubdomainRaw(org) == RemoveSpaces(TrimSpace(org))

\* the subdomain /verify derives from the organization name in the token
VerifySubdomainOf(org) == ToLower(RemoveSpaces(TrimSpace(org)))

\* form values a client may submit to /enroll and /register
RawEmails == { <<" ", "A", "@", "x">>, <<"b", "@", "x">> }
RawOrgs == { <<"A", "b">>, <<"a", " ", "b", " ">>, <<"-", "c">> }

\* ------------------------------------------------------------------ tokens
BadToken == [kind |-> "bad"]
NoToken == [kind |-> "none"]

\* utils.GenerateSignupToken: a signed (email|org|expiry) payload
GenerateSignupToken(email, org, exp) ==
  [kind |-> "signup", email |-> email, f2 |-> org, exp |-> exp]

\* utils.GenerateUserToken: a signed (email|tenantID|expiry) payload
GenerateUserToken(email, tid, exp) ==
  [kind |-> "user", email |-> email, f2 |-> tid, exp |-> exp]

\* utils.ValidateSignupToken: signature, three fields, not past the expiry
ValidateSignupToken(tok, t) ==
  /\ tok.kind \in {"signup", "user"}
  /\ ~(t > tok.exp)

VARIABLES
  tenants, users, memberships,     \* committed rows
  pendingT, pendingU,              \* pending_tenant_signups, pending_user_signups
  readers, writer,                 \* connections holding the shared / reserved lock
  now,                             \* the clock
  issued,                          \* tokens sent out in verification links
  pc, handler, rtoken, rtenant,    \* each request: position, route, token, resolved tenant
  loc,                             \* each request: the handler's local variables
  tx,                              \* each request: uncommitted writes of its transaction
  outcome,                         \* each request: the response it rendered
  live,                            \* each request: entered a provisioning branch
  late,                            \* each request: began after its token was confirmed
  dup,                             \* each request: began when a user had its token's e-mail
  faultAt,                         \* each request: the step an infrastructure failure hit
  lost,                            \* each request: its rollback discarded writes
  faultsLeft,                      \* infrastructure failures still to come
  confirmed,                       \* tokens for which a success page was rendered
  sessions,                        \* rows of the sessions table
  req,                             \* the request in the middleware chain
  ctx,                             \* the values of its context
  resp,                            \* the response written so far
  at,                              \* the stage of the chain it is about to enter
  ran,                             \* the stages it has entered, in order
  seen,                            \* what the route handler and the binding check observed
  failing,                         \* the store operation that returns an error, if any
  rHost,                           \* the Host header handed to Resolve
  rDomain,                         \* Config.Domain of the resolver
  resolved,                        \* what Resolve returned for it
  generated,                       \* the token generated and what it was generated from
  wire,                            \* the token string handed to a Validate function
  verdict,                         \* what the Validate function returned
  clock,                           \* time.Now().Unix() at that call
  visits,                          \* RateLimit: requests counted for each RemoteAddr
  lastReset,                       \* RateLimit: when the counters were last emptied
  mu,                              \* RateLimit: the request holding the mutex, 0 if none
  inflight,                        \* RateLimit: each request's position, address, answer
  reachedNext,                     \* calls of the wrapped handler per address since the reset
  arrivals,                        \* increments completed per address since the reset
  resets,                          \* rows of the password_resets table
  hashes,                          \* users.password_hash: the password each user's hash is of
  rst,                             \* /reset/confirm: each request's form, locals and answer
  applied                          \* UPDATEs of a password made for each reset token

provVars == << tenants, users, memberships, pendingT, pendingU, readers, writer, now,
               issued, pc, handler, rtoken, rtenant, loc, tx, outcome, live,
               late, dup, faultAt, lost, faultsLeft, confirmed >>

\* provVars without the clock
provRest == << tenants, users, memberships, pendingT, pendingU, readers, writer,
               issued, pc, handler, rtoken, rtenant, loc, tx, outcome, live,
               late, dup, faultAt, lost, faultsLeft, confirmed >>

pipeVars == << sessions, req, ctx, resp, at, ran, seen, failing >>

\* the variables of the library functions checked on their own
\* the variables of one RateLimit wrapper
rateVars == << visits, lastReset, mu, inflight, reachedNext, arrivals >>

\* the variables of /reset/confirm
resetVars == << resets, hashes, rst, applied >>

libVars == << rHost, rDomain, resolved, generated, wire, verdict, clock, rateVars,
              resetVars >>

vars == << provVars, pipeVars, libVars >>

\* ------------------------------------------------------------- the store
EmptyTx ==
  [tenants |-> {}, users |-> {}, members |-> {}, delT |-> {}, delU |-> {}, pendU |-> {}]

NoLoc == [email |-> << >>, org |-> << >>, sub |-> << >>, tid |-> 0, uid |-> 0]

\* what a statement of request p's transaction reads: committed rows and its own
ViewTenants(p) == tenants \cup tx[p].tenants
ViewUsers(p) == users \cup tx[p].users
ViewMembers(p) == memberships \cup tx[p].members
ViewPendingT(p) == {r \in pendingT : r.token \notin tx[p].delT}
ViewPendingU(p) == {r \in pendingU : r.token \notin tx[p].delU} \cup tx[p].pendU

MaxId(S) == IF S = {} THEN 0 ELSE CHOOSE n \in {r.id : r \in S} : \A r \in S : r.id <= n

\* INTEGER PRIMARY KEY AUTOINCREMENT
NextId(S) == MaxId(S) + 1

\* tenants: name, slug and subdomain are UNIQUE
TenantUniqueOK(S, row) ==
  \A t \in S : t.name # row.name /\ t.slug # row.slug /\ t.subdomain # row.subdomain

\* users: email is UNIQUE
UserUniqueOK(S, row) == \A u \in S : u.email # row.email

\* memberships: UNIQUE(user_id, tenant_id)
MemberUniqueOK(S, row) ==
  \A m \in S : ~(m.user_id = row.user_id /\ m.tenant_id = row.tenant_id)

\* pending_*_signups: token is UNIQUE
PendingUniqueOK(S, row) == \A r \in S : r.token # row.token

\* faulty variant: connections that do not exclude each other's writes
CanWriteUnlocked(p) == TRUE

\* a write statement of p gets the reserved lock unless another connection holds it
CanWrite(p) == writer \in {0, p}

\* a writing transaction commits once no other connection holds a shared lock
CanCommit(p) == writer = p => readers \subseteq {p}

\* an autocommit write statement outside any transaction
CanWriteNow == writer = 0 /\ readers = {}

\* ---------------------------------------------------- how a request ends
\* faulty variant: the statements ran outside the transaction, a failed request keeps its writes
AbortKeepsWrites(p, out) ==
  /\ pc' = [pc EXCEPT ![p] = "done"]
  /\ outcome' = [outcome EXCEPT ![p] = out]
  /\ tenants' = tenants \cup tx[p].tenants
  /\ users' = users \cup tx[p].users
  /\ memberships' = memberships \cup tx[p].members
  /\ tx' = [tx EXCEPT ![p] = EmptyTx]
  /\ readers' = readers \ {p}
  /\ writer' = IF writer = p THEN 0 ELSE writer
  /\ loc' = [loc EXCEPT ![p] = NoLoc]
  /\ lost' = [lost EXCEPT ![p] = FALSE]
  /\ UNCHANGED << pendingT, pendingU, confirmed >>

\* return from the handler without a commit: the deferred tx.Rollback() runs
Abort(p, out) ==
  /\ pc' = [pc EXCEPT ![p] = "done"]
  /\ outcome' = [outcome EXCEPT ![p] = out]
  /\ tx' = [tx EXCEPT ![p] = EmptyTx]
  /\ readers' = readers \ {p}
  /\ writer' = IF writer = p THEN 0 ELSE writer
  /\ loc' = [loc EXCEPT ![p] = NoLoc]
  /\ lost' = [lost EXCEPT ![p] = tx[p] # EmptyTx]
  /\ UNCHANGED << tenants, users, memberships, pendingT, pendingU, confirmed >>

\* tx.Commit() succeeds, then the handler renders `out`
CommitTx(p, out) ==
  /\ CanCommit(p)
  /\ tenants' = tenants \cup tx[p].tenants
  /\ users' = users \cup tx[p].users
  /\ memberships' = memberships \cup tx[p].members
  /\ pendingT' = {r \in pendingT : r.token \notin tx[p].delT}
  /\ pendingU' = {r \in pendingU : r.token \notin tx[p].delU} \cup tx[p].pendU
  /\ tx' = [tx EXCEPT ![p] = EmptyTx]
  /\ readers' = readers \ {p}
  /\ writer' = IF writer = p THEN 0 ELSE writer
  /\ pc' = [pc EXCEPT ![p] = "done"]
  /\ outcome' = [outcome EXCEPT ![p] = out]
  /\ loc' = [loc EXCEPT ![p] = NoLoc]
  /\ confirmed' = IF out = "confirmed" THEN confirmed \cup {rtoken[p]} ELSE confirmed
  /\ UNCHANGED lost

\* the store fails the statement for an infrastructure reason
Fault(p) ==
  /\ faultsLeft > 0
  /\ faultsLeft' = faultsLeft - 1
  /\ faultAt' = [faultAt EXCEPT ![p] = pc[p]]

NoFault == UNCHANGED << faultsLeft, faultAt >>

\* a read statement inside p's transaction: takes the shared lock
ReadStepL(p, next, l) ==
  /\ pc' = [pc EXCEPT ![p] = next]
  /\ loc' = [loc EXCEPT ![p] = l]
  /\ readers' = readers \cup {p}
  /\ UNCHANGED << tenants, users, memberships, pendingT, pendingU, writer, tx, outcome,
                  confirmed, lost >>

\* a write statement inside p's transaction: takes the reserved lock
WriteStepL(p, next, newtx, l) ==
  /\ pc' = [pc EXCEPT ![p] = next]
  /\ loc' = [loc EXCEPT ![p] = l]
  /\ tx' = [tx EXCEPT ![p] = newtx]
  /\ readers' = readers \cup {p}
  /\ writer' = p
  /\ UNCHANGED << tenants, users, memberships, pendingT, pendingU, outcome, confirmed, lost >>

ReadStep(p, next) == ReadStepL(p, next, loc[p])

WriteStep(p, next, newtx) == WriteStepL(p, next, newtx, loc[p])

\* a statement of p fails: a unique constraint (bad), SQLITE_BUSY, or a fault
WriteFails(p, bad) ==
  \/ (bad \/ ~CanWrite(p)) /\ NoFault
  \/ Fault(p)

\* tx.Commit() fails: other connections keep their shared lock beyond the busy
\* timeout, or a fault
CommitFails(p) ==
  \/ ~CanCommit(p) /\ NoFault
  \/ Fault(p)

reqFrame == UNCHANGED << now, issued, handler, rtoken, rtenant, late, dup, pipeVars, libVars >>

\* --------------------------------------------------------------- /enroll
\* EnrollHandler, POST: validate, check tenants, insert the pending row
Enroll(rawEmail, rawOrg) ==
  LET email == ToLower(TrimSpace(rawEmail))
      org == TrimSpace(rawOrg)
      sub == SubdomainOf(org)
      token == GenerateSignupToken(email, org, now + SignupTTL)
      row == [token |-> token, email |-> email, org_name |-> org,
              expires_at |-> now + SignupTTL]
  IN /\ Cardinality(issued) < MaxSignups
     /\ email # << >> /\ org # << >>
     /\ MatchSubdomain(sub)
     /\ ~ \E t \in tenants : t.email = email \/ t.subdomain = sub
     /\ PendingUniqueOK(pendingT, row)
     /\ CanWriteNow
     /\ pendingT' = pendingT \cup {row}
     /\ issued' = issued \cup {token}
     /\ UNCHANGED << tenants, users, memberships, pendingU, readers, writer, now, pc,
                     handler, rtoken, rtenant, loc, tx, outcome, live, late, dup,
                     faultAt, lost, faultsLeft, confirmed, pipeVars, libVars >>

\* ------------------------------------------------------------- /register
\* RegisterHandler, POST on a tenant domain: one pending row per (email, tenant)
Register(rawEmail, t) ==
  LET email == ToLower(TrimSpace(rawEmail))
      token == GenerateUserToken(email, t.id, now + SignupTTL)
      row == [token |-> token, email |-> email, tenant_id |-> t.id,
              expires_at |-> now + SignupTTL]
  IN /\ Cardinality(issued) < MaxSignups
     /\ email # << >>
     /\ ~ \E r \in pendingU : r.email = email /\ r.tenant_id = t.id
     /\ PendingUniqueOK(pendingU, row)
     /\ CanWriteNow
     /\ pendingU' = pendingU \cup {row}
     /\ issued' = issued \cup {token}
     /\ UNCHANGED << tenants, users, memberships, pendingT, readers, writer, now, pc,
                     handler, rtoken, rtenant, loc, tx, outcome, live, late, dup,
                     faultAt, lost, faultsLeft, confirmed, pipeVars, libVars >>

\* form values submitted to /register by the concurrent requests: two spellings of
\* one address and another address
RegisterEmails == RawEmails \cup { <<"a", "@", "x">> }

\* Steps 1 to 7: a POST on the domain of tenant ten with a well-formed e-mail address
\* and password
RegisterArrive(p, rawEmail, ten) ==
  /\ pc[p] = "idle"
  /\ ToLower(TrimSpace(rawEmail)) # << >>
  /\ handler' = [handler EXCEPT ![p] = "register"]
  /\ rtenant' = [rtenant EXCEPT ![p] = ten]
  /\ loc' = [loc EXCEPT ![p] = [NoLoc EXCEPT !.email = ToLower(TrimSpace(rawEmail)),
                                             !.tid = ten]]
  /\ pc' = [pc EXCEPT ![p] = "r_count"]
  /\ UNCHANGED << tenants, users, memberships, pendingT, pendingU, readers, writer, now,
                  issued, rtoken, tx, outcome, live, late, dup, faultAt, lost,
                  faultsLeft, confirmed, pipeVars, libVars >>

\* faulty variant: the check finds no row
CountNothing(p, email, tid) == 0

\* SELECT COUNT(*) FROM pending_user_signups WHERE email = ? AND tenant_id = ?
CountPending(p, email, tid) ==
  Cardinality({r \in ViewPendingU(p) : r.email = email /\ r.tenant_id = tid})

\* Steps 8 and 9: the transaction begins and the pending rows of the pair are counted
RegisterCount(p) ==
  /\ pc[p] = "r_count"
  /\ reqFrame /\ UNCHANGED live
  /\ \/ /\ CountPending(p, loc[p].email, loc[p].tid) = 0 /\ NoFault
        /\ ReadStep(p, "r_insert")
     \/ /\ CountPending(p, loc[p].email, loc[p].tid) > 0 /\ NoFault
        /\ Abort(p, "already_registered")
     \/ Fault(p) /\ Abort(p, "internal_error")

RegisterRow(p) ==
  [token |-> GenerateUserToken(loc[p].email, loc[p].tid, now + SignupTTL),
   email |-> loc[p].email, tenant_id |-> loc[p].tid, expires_at |-> now + SignupTTL]

\* Steps 10 and 11: the token is generated and the pending row inserted
RegisterInsert(p) ==
  /\ pc[p] = "r_insert"
  /\ reqFrame /\ UNCHANGED live
  /\ LET row == RegisterRow(p)
         ok == PendingUniqueOK(ViewPendingU(p), row)
     IN \/ /\ ok /\ CanWrite(p) /\ NoFault
           /\ WriteStep(p, "r_commit", [tx[p] EXCEPT !.pendU = @ \cup {row}])
        \/ WriteFails(p, ~ok) /\ Abort(p, "internal_error")

\* Steps 12 to 14: the commit, then the confirmation link with the token
RegisterCommit(p) ==
  /\ pc[p] = "r_commit"
  /\ UNCHANGED << now, handler, rtoken, rtenant, late, dup, live, pipeVars, libVars >>
  /\ \/ /\ CommitTx(p, "registered") /\ NoFault
        /\ issued' = issued \cup {r.token : r \in tx[p].pendU}
     \/ /\ CommitFails(p) /\ Abort(p, "internal_error")
        /\ UNCHANGED issued

\* time passes
Tick ==
  /\ now < MaxTime
  /\ now' = now + 1
  /\ UNCHANGED << provRest, pipeVars, libVars >>

\* a GET with ?token=tok arrives on route h; ten = 0 on the root domain, else the
\* id of the tenant TenantMiddleware attached
Arrive(p, h, tok, ten) ==
  /\ pc[p] = "idle"
  /\ handler' = [handler EXCEPT ![p] = h]
  /\ rtoken' = [rtoken EXCEPT ![p] = tok]
  /\ rtenant' = [rtenant EXCEPT ![p] = ten]
  /\ late' = [late EXCEPT ![p] = tok \in confirmed]
  /\ dup' = [dup EXCEPT ![p] = /\ tok.kind \in {"signup", "user"}
                               /\ \E u \in users : u.email = tok.email]
  /\ pc' = [pc EXCEPT ![p] = IF h = "verify" THEN "v_pending" ELSE "c_token"]
  /\ UNCHANGED << tenants, users, memberships, pendingT, pendingU, readers, writer, now,
                  issued, loc, tx, outcome, live, faultAt, lost, faultsLeft, confirmed,
                  pipeVars, libVars >>

\* --------------------------------------------------------------- /verify
\* Steps 1-3: validate the token, normalize, read the pending row (no transaction)
VerifyPending(p) ==
  /\ pc[p] = "v_pending"
  /\ reqFrame
  /\ IF ~ValidateSignupToken(rtoken[p], now)
     THEN Abort(p, "invalid_token") /\ NoFault /\ UNCHANGED live
     ELSE \/ /\ Fault(p)
             /\ Abort(p, "internal_error")
             /\ UNCHANGED live
          \/ /\ NoFault
             /\ IF \E r \in pendingT : r.token = rtoken[p]
                THEN /\ loc' = [loc EXCEPT ![p] =
                               [NoLoc EXCEPT !.email = ToLower(TrimSpace(rtoken[p].email)),
                                             !.org = rtoken[p].f2,
                                             !.sub = VerifySubdomainOf(rtoken[p].f2)]]
                     /\ live' = [live EXCEPT ![p] = TRUE]
                     /\ pc' = [pc EXCEPT ![p] = "v_tenant"]
                     /\ UNCHANGED << tenants, users, memberships, pendingT, pendingU,
                                     readers, writer, tx, outcome, confirmed, lost >>
                ELSE Abort(p, "not_found") /\ UNCHANGED live

\* Steps 4-5: begin the transaction, look the tenant up by subdomain or e-mail
VerifyTenant(p) ==
  /\ pc[p] = "v_tenant"
  /\ reqFrame /\ UNCHANGED live
  /\ \/ Fault(p) /\ Abort(p, "internal_error")
     \/ /\ NoFault
        /\ LET found == {t \in ViewTenants(p) :
                           \/ ToLower(t.subdomain) = ToLower(loc[p].sub)
                           \/ ToLower(t.email) = ToLower(loc[p].email)}
           IN IF found = {}
              THEN ReadStep(p, "v_ins_tenant")
              ELSE \E t \in found : ReadStepL(p, "v_user", [loc[p] EXCEPT !.tid = t.id])

\* Steps 6-7: the tenant exists; is its user there too?
VerifyUser(p) ==
  /\ pc[p] = "v_user"
  /\ reqFrame /\ UNCHANGED live
  /\ \/ Fault(p) /\ Abort(p, "internal_error")
     \/ /\ NoFault
        /\ IF \E u \in ViewUsers(p) :
                ToLower(u.email) = ToLower(loc[p].email) /\ u.tenant_id = loc[p].tid
           THEN Abort(p, "already_verified")
           ELSE Abort(p, "conflict")

VerifyTenantRow(p) ==
  [id |-> NextId(ViewTenants(p)), name |-> loc[p].org, slug |-> loc[p].sub,
   subdomain |-> loc[p].sub, email |-> loc[p].email, is_active |-> TRUE,
   is_deleted |-> FALSE, allow_signins |-> TRUE]

\* Step 8: insert the tenant
VerifyInsertTenant(p) ==
  /\ pc[p] = "v_ins_tenant"
  /\ reqFrame /\ UNCHANGED live
  /\ LET row == VerifyTenantRow(p)
         ok == TenantUniqueOK(ViewTenants(p), row)
     IN \/ /\ ok /\ CanWrite(p) /\ NoFault
           /\ WriteStepL(p, "v_ins_user", [tx[p] EXCEPT !.tenants = @ \cup {row}],
                         [loc[p] EXCEPT !.tid = row.id])
        \/ WriteFails(p, ~ok) /\ Abort(p, "internal_error")

VerifyUserRow(p) ==
  [id |-> NextId(ViewUsers(p)), email |-> loc[p].email, is_verified |-> TRUE,
   tenant_id |-> loc[p].tid, role |-> "owner"]

\* Step 9: insert the owner
VerifyInsertUser(p) ==
  /\ pc[p] = "v_ins_user"
  /\ reqFrame /\ UNCHANGED live
  /\ LET row == VerifyUserRow(p)
         ok == UserUniqueOK(ViewUsers(p), row)
     IN \/ /\ ok /\ CanWrite(p) /\ NoFault
           /\ WriteStepL(p, "v_ins_member", [tx[p] EXCEPT !.users = @ \cup {row}],
                         [loc[p] EXCEPT !.uid = row.id])
        \/ WriteFails(p, ~ok) /\ Abort(p, "internal_error")

VerifyMemberRow(p) ==
  [user_id |-> loc[p].uid, tenant_id |-> loc[p].tid, role |-> "owner", is_active |-> TRUE]

\* Step 10a: insert the membership
VerifyInsertMember(p) ==
  /\ pc[p] = "v_ins_member"
  /\ reqFrame /\ UNCHANGED live
  /\ LET row == VerifyMemberRow(p)
         ok == MemberUniqueOK(ViewMembers(p), row)
     IN \/ /\ ok /\ CanWrite(p) /\ NoFault
           /\ WriteStep(p, "v_del_pending", [tx[p] EXCEPT !.members = @ \cup {row}])
        \/ WriteFails(p, ~ok) /\ Abort(p, "internal_error")

\* Step 10b: delete the pending row; an error aborts
VerifyDeletePending(p) ==
  /\ pc[p] = "v_del_pending"
  /\ reqFrame /\ UNCHANGED live
  /\ \/ /\ CanWrite(p) /\ NoFault
        /\ WriteStep(p, "v_commit", [tx[p] EXCEPT !.delT = @ \cup {rtoken[p]}])
     \/ WriteFails(p, FALSE) /\ Abort(p, "internal_error")

\* Steps 11-12: commit, render the success page
VerifyCommit(p) ==
  /\ pc[p] = "v_commit"
  /\ reqFrame /\ UNCHANGED live
  /\ \/ CommitTx(p, "confirmed") /\ NoFault
     \/ CommitFails(p) /\ Abort(p, "internal_error")

\* -------------------------------------------------------------- /confirm
\* middleware.IsTenantRequest: the flag TenantMiddleware put in the context
IsTenantRequest(p) == rtenant[p] # 0

\* faulty variant: any tenant domain may confirm the signup
TenantMatchesAnyTenant(p, r) == rtenant[p] # 0

\* Step 5: the request's tenant is the one the pending row names
TenantMatches(p, r) == IsTenantRequest(p) /\ rtenant[p] = r.tenant_id

\* Steps 2-5: token present, begin, look for a pending user signup, match the tenant
ConfirmPendingUser(p) ==
  /\ pc[p] = "c_token"
  /\ reqFrame
  /\ IF rtoken[p] = NoToken
     THEN Abort(p, "missing_token") /\ NoFault /\ UNCHANGED live
     ELSE \/ /\ Fault(p)
             /\ \E out \in {"internal_error", "invalid_token"} : Abort(p, out)
             /\ UNCHANGED live
          \/ /\ NoFault
             /\ LET rows == {r \in ViewPendingU(p) :
                               r.token = rtoken[p] /\ r.expires_at > now}
                IN IF rows = {}
                   THEN ReadStep(p, "c_pending_tenant") /\ UNCHANGED live
                   ELSE \E r \in rows :
                          IF TenantMatches(p, r)
                          THEN /\ ReadStepL(p, "c_u_exists",
                                      [NoLoc EXCEPT !.email = r.email, !.tid = r.tenant_id])
                               /\ live' = [live EXCEPT ![p] = TRUE]
                          ELSE Abort(p, "invalid_token") /\ UNCHANGED live

\* Step 6: a user with this e-mail already exists?
ConfirmUserExists(p) ==
  /\ pc[p] = "c_u_exists"
  /\ reqFrame /\ UNCHANGED live
  /\ \/ Fault(p) /\ Abort(p, "internal_error")
     \/ /\ NoFault
        /\ IF \E u \in ViewUsers(p) : u.email = loc[p].email
           THEN ReadStep(p, "c_u_dup_delete")
           ELSE ReadStep(p, "c_u_ins_user")

\* Step 6, duplicate: delete the pending row, the error is dropped
ConfirmUserDupDelete(p) ==
  /\ pc[p] = "c_u_dup_delete"
  /\ reqFrame /\ UNCHANGED live
  /\ \/ /\ CanWrite(p) /\ NoFault
        /\ WriteStep(p, "c_u_dup_commit", [tx[p] EXCEPT !.delU = @ \cup {rtoken[p]}])
     \/ WriteFails(p, FALSE) /\ ReadStep(p, "c_u_dup_commit")

\* Step 6, duplicate: commit, the error is dropped, render already_registered
ConfirmUserDupCommit(p) ==
  /\ pc[p] = "c_u_dup_commit"
  /\ reqFrame /\ UNCHANGED live
  /\ \/ CommitTx(p, "already_registered") /\ NoFault
     \/ CommitFails(p) /\ Abort(p, "already_registered")

ConfirmUserRow(p) ==
  [id |-> NextId(ViewUsers(p)), email |-> loc[p].email, is_verified |-> TRUE,
   tenant_id |-> loc[p].tid, role |-> "member"]

\* Steps 7-8: insert the member user
ConfirmInsertUser(p) ==
  /\ pc[p] = "c_u_ins_user"
  /\ reqFrame /\ UNCHANGED live
  /\ LET row == ConfirmUserRow(p)
         ok == UserUniqueOK(ViewUsers(p), row)
     IN \/ /\ ok /\ CanWrite(p) /\ NoFault
           /\ WriteStepL(p, "c_u_ins_member", [tx[p] EXCEPT !.users = @ \cup {row}],
                         [loc[p] EXCEPT !.uid = row.id])
        \/ WriteFails(p, ~ok) /\ Abort(p, "internal_error")

ConfirmMemberRow(p) ==
  [user_id |-> loc[p].uid, tenant_id |-> loc[p].tid, role |-> "member", is_active |-> TRUE]

\* Step 9: insert the membership
ConfirmInsertMember(p) ==
  /\ pc[p] = "c_u_ins_member"
  /\ reqFrame /\ UNCHANGED live
  /\ LET row == ConfirmMemberRow(p)
         ok == MemberUniqueOK(ViewMembers(p), row)
     IN \/ /\ ok /\ CanWrite(p) /\ NoFault
           /\ WriteStep(p, "c_u_del_pending", [tx[p] EXCEPT !.members = @ \cup {row}])
        \/ WriteFails(p, ~ok) /\ Abort(p, "internal_error")

\* Step 10: delete the pending user signup; an error is logged and the handler goes on
ConfirmDeletePendingUser(p) ==
  /\ pc[p] = "c_u_del_pending"
  /\ reqFrame /\ UNCHANGED live
  /\ \/ /\ CanWrite(p) /\ NoFault
        /\ WriteStep(p, "c_u_commit", [tx[p] EXCEPT !.delU = @ \cup {rtoken[p]}])
     \/ WriteFails(p, FALSE) /\ ReadStep(p, "c_u_commit")

\* Steps 11-12: commit, render the success page
ConfirmCommitUser(p) ==
  /\ pc[p] = "c_u_commit"
  /\ reqFrame /\ UNCHANGED live
  /\ \/ CommitTx(p, "confirmed") /\ NoFault
     \/ CommitFails(p) /\ Abort(p, "internal_error")

\* Step 13 and 24: look for a pending tenant signup; only the root domain may use it
ConfirmPendingTenant(p) ==
  /\ pc[p] = "c_pending_tenant"
  /\ reqFrame
  /\ \/ Fault(p) /\ Abort(p, "invalid_token") /\ UNCHANGED live
     \/ /\ NoFault
        /\ LET rows == {r \in ViewPendingT(p) :
                          r.token = rtoken[p] /\ r.expires_at > now}
           IN IF rows # {} /\ ~IsTenantRequest(p)
              THEN \E r \in rows :
                     /\ ReadStepL(p, "c_t_exists",
                                  [NoLoc EXCEPT !.email = r.email, !.org = r.org_name])
                     /\ live' = [live EXCEPT ![p] = TRUE]
              ELSE Abort(p, "invalid_token") /\ UNCHANGED live

\* Step 14: a user with this e-mail already exists?
ConfirmTenantUserExists(p) ==
  /\ pc[p] = "c_t_exists"
  /\ reqFrame /\ UNCHANGED live
  /\ \/ Fault(p) /\ Abort(p, "internal_error")
     \/ /\ NoFault
        /\ IF \E u \in ViewUsers(p) : u.email = loc[p].email
           THEN ReadStep(p, "c_t_dup_user")
           ELSE ReadStep(p, "c_t_subdomain")

\* Step 15: derive the subdomain, is it taken?
ConfirmSubdomainExists(p) ==
  /\ pc[p] = "c_t_subdomain"
  /\ reqFrame /\ UNCHANGED live
  /\ \/ Fault(p) /\ Abort(p, "internal_error")
     \/ /\ NoFault
        /\ LET subdomain == SubdomainOf(loc[p].org)
               l == [loc[p] EXCEPT !.sub = subdomain]
           IN IF \E t \in ViewTenants(p) : t.subdomain = subdomain
              THEN ReadStepL(p, "c_t_dup_sub", l)
              ELSE ReadStepL(p, "c_t_ins_tenant", l)

\* Steps 14 and 15, duplicate: delete the pending row, the error is dropped
ConfirmTenantDupDelete(p) ==
  /\ pc[p] \in {"c_t_dup_user", "c_t_dup_sub"}
  /\ reqFrame /\ UNCHANGED live
  /\ LET next == IF pc[p] = "c_t_dup_user" THEN "c_t_dup_user_commit"
                                           ELSE "c_t_dup_sub_commit"
     IN \/ /\ CanWrite(p) /\ NoFault
           /\ WriteStep(p, next, [tx[p] EXCEPT !.delT = @ \cup {rtoken[p]}])
        \/ WriteFails(p, FALSE) /\ ReadStep(p, next)

\* Steps 14 and 15, duplicate: commit, the error is dropped, render the rejection
ConfirmTenantDupCommit(p) ==
  /\ pc[p] \in {"c_t_dup_user_commit", "c_t_dup_sub_commit"}
  /\ reqFrame /\ UNCHANGED live
  /\ LET out == IF pc[p] = "c_t_dup_user_commit" THEN "already_registered"
                                                 ELSE "subdomain_exists"
     IN \/ CommitTx(p, out) /\ NoFault
        \/ CommitFails(p) /\ Abort(p, out)

ConfirmTenantRow(p) ==
  [id |-> NextId(ViewTenants(p)), name |-> loc[p].org, slug |-> loc[p].sub,
   subdomain |-> loc[p].sub, email |-> loc[p].email, is_active |-> TRUE,
   is_deleted |-> FALSE, allow_signins |-> TRUE]

\* Steps 16-17: insert the tenant
ConfirmInsertTenant(p) ==
  /\ pc[p] = "c_t_ins_tenant"
  /\ reqFrame /\ UNCHANGED live
  /\ LET row == ConfirmTenantRow(p)
         ok == TenantUniqueOK(ViewTenants(p), row)
     IN \/ /\ ok /\ CanWrite(p) /\ NoFault
           /\ WriteStepL(p, "c_t_ins_user", [tx[p] EXCEPT !.tenants = @ \cup {row}],
                         [loc[p] EXCEPT !.tid = row.id])
        \/ WriteFails(p, ~ok) /\ Abort(p, "internal_error")

ConfirmOwnerRow(p) ==
  [id |-> NextId(ViewUsers(p)), email |-> loc[p].email, is_verified |-> TRUE,
   tenant_id |-> loc[p].tid, role |-> "admin"]

\* Steps 18-19: insert the tenant's first user
ConfirmInsertOwner(p) ==
  /\ pc[p] = "c_t_ins_user"
  /\ reqFrame /\ UNCHANGED live
  /\ LET row == ConfirmOwnerRow(p)
         ok == UserUniqueOK(ViewUsers(p), row)
     IN \/ /\ ok /\ CanWrite(p) /\ NoFault
           /\ WriteStepL(p, "c_t_ins_member", [tx[p] EXCEPT !.users = @ \cup {row}],
                         [loc[p] EXCEPT !.uid = row.id])
        \/ WriteFails(p, ~ok) /\ Abort(p, "internal_error")

ConfirmOwnerMemberRow(p) ==
  [user_id |-> loc[p].uid, tenant_id |-> loc[p].tid, role |-> "admin", is_active |-> TRUE]

\* Step 20: insert the membership
ConfirmInsertOwnerMember(p) ==
  /\ pc[p] = "c_t_ins_member"
  /\ reqFrame /\ UNCHANGED live
  /\ LET row == ConfirmOwnerMemberRow(p)
         ok == MemberUniqueOK(ViewMembers(p), row)
     IN \/ /\ ok /\ CanWrite(p) /\ NoFault
           /\ WriteStep(p, "c_t_del_pending", [tx[p] EXCEPT !.members = @ \cup {row}])
        \/ WriteFails(p, ~ok) /\ Abort(p, "internal_error")

\* Step 21: delete the pending tenant signup; an error is logged and the handler goes on
ConfirmDeletePendingTenant(p) ==
  /\ pc[p] = "c_t_del_pending"
  /\ reqFrame /\ UNCHANGED live
  /\ \/ /\ CanWrite(p) /\ NoFault
        /\ WriteStep(p, "c_t_commit", [tx[p] EXCEPT !.delT = @ \cup {rtoken[p]}])
     \/ WriteFails(p, FALSE) /\ ReadStep(p, "c_t_commit")

\* Steps 22-23: commit, render the success page
ConfirmCommitTenant(p) ==
  /\ pc[p] = "c_t_commit"
  /\ reqFrame /\ UNCHANGED live
  /\ \/ CommitTx(p, "confirmed") /\ NoFault
     \/ CommitFails(p) /\ Abort(p, "internal_error")

\* ------------------------------------------------------ the middleware chain
\* cfg.Domain, the root domain
Domain == <<"x">>

\* faulty variant: the port separator is never found
NeverFound(s, c) == 0

\* strings.Index(s, c) + 1, 0 when c does not occur
Index(s, c) ==
  IF \E i \in DOMAIN s : s[i] = c
  THEN CHOOSE i \in DOMAIN s : s[i] = c /\ \A j \in 1..(i - 1) : s[j] # c
  ELSE 0

\* strings.HasSuffix
HasSuffix(s, suf) ==
  /\ Len(s) >= Len(suf)
  /\ SubSeq(s, Len(s) - Len(suf) + 1, Len(s)) = suf

\* strings.TrimSuffix
TrimSuffix(s, suf) == IF HasSuffix(s, suf) THEN SubSeq(s, 1, Len(s) - Len(suf)) ELSE s

\* SubdomainResolver.Resolve for a resolver whose Config.Domain is domain: the
\* subdomain of a Host header, << >> for the main site
ResolveFor(domain, hostHeader) ==
  LET i == Index(hostHeader, ":")
      host == IF i # 0 THEN SubSeq(hostHeader, 1, i - 1) ELSE hostHeader
      dotDomain == <<".">> \o domain
      wwwDomain == <<"w", "w", "w", ".">> \o domain
  IN IF ~HasSuffix(host, dotDomain) /\ host # domain /\ host # wwwDomain
     THEN [err |-> TRUE, sub |-> << >>]
     ELSE IF host = domain \/ host = wwwDomain
          THEN [err |-> FALSE, sub |-> << >>]
          ELSE [err |-> FALSE,
                sub |-> ToLower(TrimSuffix(TrimSuffix(host, dotDomain), <<".">>))]

\* Resolve of the resolver main builds, whose Config.Domain is the root domain
Resolve(hostHeader) == ResolveFor(Domain, hostHeader)

\* faulty variant: the row of that subdomain, whatever its state
GetTenantInAnyState(sub) == {t \in tenants : t.subdomain = sub}

\* models.GetTenantBySubdomain: the active, not deleted tenant of that subdomain; {} is
\* no row, and an error of the store as well, which TenantMiddleware answers alike.
\* failing names the store operation that returns errors: "fetch" this SELECT, "lookup"
\* the one of GetSession, "user" the one of GetUserByEmailAndTenant, "create" the
\* INSERT of CreateSession, "none" when the store answers every query
GetTenantBySubdomain(sub) ==
  IF failing = "fetch" THEN {}
  ELSE {t \in tenants : t.subdomain = sub /\ t.is_active /\ ~t.is_deleted}

\* faulty variant: a tenant is returned whatever the subdomain
FetchSomeTenant(sub) ==
  {[id |-> t.id, subdomain |-> t.subdomain, name |-> t.name] : t \in tenants}

\* DBFetcher.Fetch: {} is nil
Fetch(sub) ==
  {[id |-> t.id, subdomain |-> t.subdomain, name |-> t.name] : t \in GetTenantBySubdomain(sub)}

\* faulty variant: a session is still accepted at its expiry time
GetSessionAtExpiry(token) ==
  {u \in users : \E s \in sessions :
     s.token = token /\ s.user_id = u.id /\ s.expires_at >= now}

\* models.GetSession: sessions JOIN users on the token, not yet expired; {} is the error
GetSession(token) ==
  IF failing = "lookup" THEN {}
  ELSE {u \in users : \E s \in sessions :
          s.token = token /\ s.user_id = u.id /\ s.expires_at > now}

\* the values rand.Read may give CreateSession
SessionTokens == {"s1", "s2"}

\* the INSERT of models.CreateSession: a row that expires in 24 hours; an error of the
\* store is logged and the table is left as it was
InsertSession(userID, tenantID, token) ==
  IF failing = "create" THEN sessions
  ELSE sessions \cup {[token |-> token, user_id |-> userID, tenant_id |-> tenantID,
                       expires_at |-> now + SessionTTL]}

\* models.CreateSession, called by LoginHandler once the password is verified and by
\* RequestResetPasswordHandler: a random token, a row that expires in 24 hours
CreateSession(userID, tenantID, token) ==
  /\ Cardinality(sessions) < MaxSessions
  /\ \A s \in sessions : s.token # token
  /\ sessions' = InsertSession(userID, tenantID, token)
  /\ UNCHANGED << provVars, libVars, req, ctx, resp, at, ran, seen, failing >>

\* the wrappers in the order main builds them: each one wraps the handler built so far
Wrapping == <<"Lang", "Tenant", "Session", "CSRF", "Recover", "Logger">>

\* the order a request meets them: the last wrapper is the outermost, the mux is innermost
Chain ==
  [i \in 1..(Len(Wrapping) + 1) |->
     IF i <= Len(Wrapping) THEN Wrapping[Len(Wrapping) + 1 - i] ELSE "Mux"]

\* the position of a request whose ServeHTTP has returned
Served == Len(Chain) + 1

NoCookie == "none"

NoReq == [host |-> << >>, method |-> "", session |-> NoCookie, csrfCookie |-> "",
          csrfForm |-> "", csrfHeader |-> ""]

\* context.Background(): tenant 0 and user 0 are nil
NoCtx == [tenant |-> 0, isTenant |-> "unset", userID |-> 0, user |-> 0, csrf |-> "",
          lang |-> "unset"]

\* nothing written: no status, no Set-Cookie
NoResp == [status |-> 0, sessionCleared |-> FALSE, csrfSet |-> "", sessionSet |-> NoCookie,
           location |-> ""]

\* binding is what FromContext gave SessionMiddleware's tenant check, -1 before it ran;
\* form holds the form fields the route handler read
NoSeen == [reached |-> FALSE, user |-> 0, tenant |-> 0, csrf |-> "", lang |-> "unset",
           binding |-> -1, form |-> [email |-> << >>, password |-> ""]]

\* Host headers: root, www, tenant c in capitals with a port, tenant ab, a host that
\* ends in the root domain without a dot, a subdomain without tenant
Hosts ==
  { <<"x">>, <<"w", "w", "w", ".", "x">>, <<"C", ".", "x", ":", "8">>,
    <<"a", "b", ".", "x">>, <<"c", "x">>, <<"b", ".", "x">> }

Methods == {"GET", "POST", "DELETE"}

SessionCookies == {NoCookie, ""} \cup SessionTokens

CsrfCookies == {"", "k1"}

CsrfForms == {"", "k1", "k2"}

\* values of the X-CSRF-Token header, "" when absent
CsrfHeaders == {"", "k1"}

\* the values rand.Read may give generateCSRFToken
FreshCsrf == {"k0"}

\* http.ListenAndServe hands a request to the outermost wrapper
Receive(host, method, session, csrfCookie, csrfForm, csrfHeader) ==
  /\ at = 0
  /\ req' = [host |-> host, method |-> method, session |-> session,
             csrfCookie |-> csrfCookie, csrfForm |-> csrfForm, csrfHeader |-> csrfHeader]
  /\ at' = 1
  /\ UNCHANGED << provVars, libVars, sessions, ctx, resp, ran, seen, failing >>

\* the request enters the wrapper or handler `name`
Enter(name) ==
  /\ at \in DOMAIN Chain
  /\ Chain[at] = name
  /\ ran' = Append(ran, name)
  /\ UNCHANGED << provVars, libVars, sessions, req, failing >>

\* next.ServeHTTP(w, r.WithContext(c))
Pass(c) ==
  /\ ctx' = c
  /\ at' = at + 1

\* write the response r and return without calling next
Reply(r) ==
  /\ resp' = r
  /\ at' = Served
  /\ UNCHANGED ctx

\* middleware.Logger: loads the user of the session cookie into the context
LoggerStep ==
  /\ Enter("Logger")
  /\ LET found == IF req.session # NoCookie THEN GetSession(req.session) ELSE {}
     IN IF found # {}
        THEN Pass([ctx EXCEPT !.user = (CHOOSE u \in found : TRUE).id])
        ELSE Pass(ctx)
  /\ UNCHANGED << resp, seen >>

\* Recover: calls next, no handler of the model panics
RecoverStep ==
  /\ Enter("Recover")
  /\ Pass(ctx)
  /\ UNCHANGED << resp, seen >>

\* faulty variant: only POST is verified
IsPost(method) == method = "POST"

\* faulty variant: every method is verified
IsAnyMethod(method) == TRUE

\* the methods whose token CSRFMiddleware verifies
IsModifying(method) == method \in {"POST", "PUT", "DELETE"}

\* faulty variant: a token is minted for every request
AlwaysMinted(cookie, minted) == minted

\* Step 1 of CSRFMiddleware: the cookie's token, or a new one when the cookie is
\* absent or empty
EnsureToken(cookie, minted) == IF cookie = "" THEN minted ELSE cookie

\* middleware.CSRFMiddleware; randOK: rand.Read succeeded, formOK: ParseForm succeeded.
\* The X-CSRF-Token header is not read.
CSRFStep ==
  /\ Enter("CSRF")
  /\ \E randOK \in BOOLEAN, formOK \in BOOLEAN, minted \in FreshCsrf :
       LET mint == req.csrfCookie = ""
           token == EnsureToken(req.csrfCookie, minted)
           set == IF mint THEN [resp EXCEPT !.csrfSet = minted] ELSE resp
           checked == IsModifying(req.method)
       IN IF mint /\ ~randOK
          THEN Reply([resp EXCEPT !.status = 500])
          ELSE IF checked /\ ~formOK
          THEN Reply([set EXCEPT !.status = 400])
          ELSE IF checked /\ req.csrfForm = ""
          THEN Reply([set EXCEPT !.status = 403])
          ELSE IF checked /\ req.csrfForm # token
          THEN Reply([set EXCEPT !.status = 403])
          ELSE resp' = set /\ Pass([ctx EXCEPT !.csrf = token])
  /\ UNCHANGED seen

\* middleware.SessionMiddleware
SessionStep ==
  /\ Enter("Session")
  /\ IF req.session \notin {NoCookie, ""}
     THEN LET found == GetSession(req.session)
          IN IF found # {}
             THEN LET user == CHOOSE u \in found : TRUE
                      t == ctx.tenant
                  IN /\ seen' = [seen EXCEPT !.binding = t]
                     /\ IF t # 0 /\ user.tenant_id # t
                        THEN /\ resp' = [resp EXCEPT !.sessionCleared = TRUE]
                             /\ Pass(ctx)
                        ELSE /\ Pass([ctx EXCEPT !.userID = user.id, !.user = user.id])
                             /\ UNCHANGED resp
             ELSE /\ resp' = [resp EXCEPT !.sessionCleared = TRUE]
                  /\ Pass(ctx)
                  /\ UNCHANGED seen
     ELSE /\ Pass(ctx)
          /\ UNCHANGED << resp, seen >>

\* middleware.TenantMiddleware
TenantStep ==
  /\ Enter("Tenant")
  /\ LET r == Resolve(req.host)
         found == Fetch(r.sub)
     IN IF r.err
        THEN Reply([resp EXCEPT !.status = 404])
        ELSE IF r.sub = << >>
        THEN Pass([ctx EXCEPT !.isTenant = "false"]) /\ UNCHANGED resp
        ELSE IF found = {}
        THEN Reply([resp EXCEPT !.status = 404])
        ELSE /\ Pass([ctx EXCEPT !.tenant = (CHOOSE t \in found : TRUE).id,
                                 !.isTenant = "true"])
             /\ UNCHANGED resp
  /\ UNCHANGED seen

\* cfg.I18n.DefaultLang and the loaded locales
DefaultLang == "en"
Translations == {"en", "fr"}

\* values of the "lang" cookie ("" when absent) and Accept-Language headers, each
\* tag with its base language
LangCookies == {"", "fr", "zz"}
AcceptLangs ==
  { << >>, << [tag |-> "de", base |-> "de"], [tag |-> "fr-FR", base |-> "fr"] >> }

\* the loop of LangMiddleware over the Accept-Language tags
RECURSIVE FromAcceptLanguage(_)
FromAcceptLanguage(tags) ==
  IF tags = << >> THEN DefaultLang
  ELSE IF Head(tags).tag \in Translations THEN Head(tags).tag
  ELSE IF Head(tags).base # Head(tags).tag /\ Head(tags).base \in Translations
       THEN Head(tags).base
  ELSE FromAcceptLanguage(Tail(tags))

\* middleware.LangMiddleware
LangStep ==
  /\ Enter("Lang")
  /\ \E cookie \in LangCookies, accept \in AcceptLangs :
       LET lang == IF cookie # ""
                   THEN IF cookie \in Translations THEN cookie ELSE DefaultLang
                   ELSE FromAcceptLanguage(accept)
       IN Pass([ctx EXCEPT !.lang = lang])
  /\ UNCHANGED << resp, seen >>

\* the mux calls the route handler, which reads the context and responds
MuxStep ==
  /\ Enter("Mux")
  /\ seen' = [seen EXCEPT !.reached = TRUE, !.user = ctx.user, !.tenant = ctx.tenant,
                          !.csrf = ctx.csrf, !.lang = ctx.lang]
  /\ Reply([resp EXCEPT !.status = 200])

\* ------------------------------------------------------ the session handlers
\* the password whose bcrypt hash the users row stores
PasswordOf(u) == IF u.id = 1 THEN "p1" ELSE "p2"

\* faulty variant: every password verifies
AnyPassword(u, pass) == TRUE

\* bcrypt.CompareHashAndPassword(user.PasswordHash, pass) = nil
CompareHashAndPassword(u, pass) == pass = PasswordOf(u)

\* models.GetUserByEmailAndTenant: the verified user of that e-mail in that tenant
GetUserByEmailAndTenant(email, tenantID) ==
  {u \in users : u.email = email /\ u.tenant_id = tenantID /\ u.is_verified}

\* the "email" and "password" fields of a submitted form, empty when a field is missing
Forms ==
  [emails |-> { << >>, <<"C", "@", "x">>, <<"a", "@", "x">>, <<"z", "@", "x">> },
   passwords |-> {"", "p1", "p2"}]

\* the mux hands the request to the handler of route `name`, which reads the context
\* and the form; no wrapper reads the path
Route(name, email, pass) ==
  /\ at \in DOMAIN Chain
  /\ Chain[at] = "Mux"
  /\ ran' = Append(ran, name)
  /\ at' = Served
  /\ seen' = [seen EXCEPT !.reached = TRUE, !.user = ctx.user, !.tenant = ctx.tenant,
                          !.csrf = ctx.csrf, !.lang = ctx.lang,
                          !.form = [email |-> email, password |-> pass]]
  /\ UNCHANGED << provVars, libVars, req, ctx, failing >>

\* handlers.LoginHandler on /login. token: what rand.Read gives CreateSession.
\* renderError answers with the login form and a message; CSRFMiddleware has parsed
\* the form of every request that is not a GET
LoginHandler(email, pass, token) ==
  /\ Route("Login", email, pass)
  /\ LET e == ToLower(TrimSpace(email))
         found == GetUserByEmailAndTenant(e, ctx.tenant)
         user == CHOOSE u \in found : TRUE
     IN IF ctx.isTenant # "true" \/ ctx.tenant = 0
        THEN resp' = [resp EXCEPT !.status = 404] /\ UNCHANGED sessions
        ELSE IF req.method = "GET"
        THEN resp' = [resp EXCEPT !.status = 200] /\ UNCHANGED sessions
        ELSE IF e = << >> \/ pass = ""
        THEN resp' = [resp EXCEPT !.status = 200] /\ UNCHANGED sessions
        ELSE IF failing = "user"
        THEN resp' = [resp EXCEPT !.status = 200] /\ UNCHANGED sessions
        ELSE IF found = {}
        THEN resp' = [resp EXCEPT !.status = 200] /\ UNCHANGED sessions
        ELSE IF ~CompareHashAndPassword(user, pass)
        THEN resp' = [resp EXCEPT !.status = 200] /\ UNCHANGED sessions
        ELSE /\ Cardinality(sessions) < MaxSessions
             /\ \A s \in sessions : s.token # token
             /\ sessions' = InsertSession(user.id, user.tenant_id, token)
             /\ resp' = [resp EXCEPT !.status = 302, !.sessionSet = token,
                                     !.location = "/dashboard"]

\* faulty variant: logout deletes the row of the session cookie it was sent
LogoutRevokes ==
  /\ Route("Logout", << >>, "")
  /\ resp' = [resp EXCEPT !.status = 303, !.sessionCleared = TRUE, !.location = "/"]
  /\ sessions' = {s \in sessions : s.token # req.session}

\* handlers.LogoutHandler on /logout: an expired, empty session cookie and a redirect
LogoutHandler ==
  /\ Route("Logout", << >>, "")
  /\ resp' = [resp EXCEPT !.status = 303, !.sessionCleared = TRUE, !.location = "/"]
  /\ UNCHANGED sessions

\* handlers.RequestResetPasswordHandler on /reset. resetOK: the INSERT into
\* password_resets succeeded; that table is read by /reset/confirm only
RequestResetPasswordHandler(email, token, resetOK) ==
  /\ Route("Reset", email, "")
  /\ LET e == ToLower(TrimSpace(email))
         tenantID == ctx.tenant
         found == GetUserByEmailAndTenant(e, tenantID)
         user == CHOOSE u \in found : TRUE
     IN IF req.method = "GET"
        THEN resp' = [resp EXCEPT !.status = 200] /\ UNCHANGED sessions
        ELSE IF e = << >>
        THEN resp' = [resp EXCEPT !.status = 400] /\ UNCHANGED sessions
        ELSE IF failing = "user"
        THEN resp' = [resp EXCEPT !.status = 500] /\ UNCHANGED sessions
        ELSE IF found = {}
        THEN resp' = [resp EXCEPT !.status = 200] /\ UNCHANGED sessions
        ELSE /\ Cardinality(sessions) < MaxSessions
             /\ \A s \in sessions : s.token # token
             /\ sessions' = InsertSession(user.id, tenantID, token)
             /\ resp' = [resp EXCEPT !.status = IF resetOK THEN 200 ELSE 500]

\* faulty variant: the wrapped handler is called for every request
RequireNothing ==
  /\ Route("Dashboard", << >>, "")
  /\ resp' = [resp EXCEPT !.status = 200]
  /\ UNCHANGED sessions

\* middleware.RequireAuth around DashboardHandler on /dashboard: CurrentUser reads the
\* value stored under userKey
RequireAuth ==
  /\ at \in DOMAIN Chain
  /\ Chain[at] = "Mux"
  /\ ran' = Append(ran, "Dashboard")
  /\ at' = Served
  /\ IF ctx.user = 0
     THEN /\ resp' = [resp EXCEPT !.status = 303, !.location = "/login?error=auth"]
          /\ UNCHANGED seen
     ELSE /\ resp' = [resp EXCEPT !.status = 200]
          /\ seen' = [seen EXCEPT !.reached = TRUE, !.user = ctx.user,
                                  !.tenant = ctx.tenant, !.csrf = ctx.csrf,
                                  !.lang = ctx.lang]
  /\ UNCHANGED << provVars, libVars, sessions, req, ctx, failing >>

\* ServeHTTP has returned; the server takes the next request
Finish ==
  /\ at = Served
  /\ req' = NoReq /\ ctx' = NoCtx /\ resp' = NoResp
  /\ at' = 0 /\ ran' = << >> /\ seen' = NoSeen
  /\ UNCHANGED << provVars, libVars, sessions, failing >>

\* the store starts or stops returning errors for one of its operations
StoreTurns(op) ==
  /\ failing # op
  /\ failing' = op
  /\ UNCHANGED << provVars, libVars, sessions, req, ctx, resp, at, ran, seen >>

\* no session, no request
PipeIdle ==
  /\ sessions = {}
  /\ req = NoReq /\ ctx = NoCtx /\ resp = NoResp
  /\ at = 0 /\ ran = << >> /\ seen = NoSeen
  /\ failing = "none"

\* ------------------------------------------------------- the token codec
\* the printable ASCII characters in code order, " " (32) to "~" (126); "bsl" and
\* "btk" stand for the backslash and the backtick
Printable ==
  << " ", "!", "\"", "#", "$", "%", "&", "'", "(", ")", "*", "+", ",", "-", ".", "/",
     "0", "1", "2", "3", "4", "5", "6", "7", "8", "9", ":", ";", "<", "=", ">", "?",
     "@", "A", "B", "C", "D", "E", "F", "G", "H", "I", "J", "K", "L", "M", "N", "O",
     "P", "Q", "R", "S", "T", "U", "V", "W", "X", "Y", "Z", "[", "bsl", "]", "^", "_",
     "btk", "a", "b", "c", "d", "e", "f", "g", "h", "i", "j", "k", "l", "m", "n", "o",
     "p", "q", "r", "s", "t", "u", "v", "w", "x", "y", "z", "{", "|", "}", "~" >>

\* the byte of each printable character and of the line feed
OrdTable ==
  [c \in {Printable[i] : i \in DOMAIN Printable} \cup {"\n"} |->
     IF c = "\n" THEN 10 ELSE 31 + (CHOOSE i \in DOMAIN Printable : Printable[i] = c)]

\* []byte(s)
Bytes(s) == [i \in DOMAIN s |-> OrdTable[s[i]]]

\* the alphabet of base64.URLEncoding
B64 ==
  << "A", "B", "C", "D", "E", "F", "G", "H", "I", "J", "K", "L", "M", "N", "O", "P",
     "Q", "R", "S", "T", "U", "V", "W", "X", "Y", "Z", "a", "b", "c", "d", "e", "f",
     "g", "h", "i", "j", "k", "l", "m", "n", "o", "p", "q", "r", "s", "t", "u", "v",
     "w", "x", "y", "z", "0", "1", "2", "3", "4", "5", "6", "7", "8", "9", "-", "_" >>

\* the six bits of each alphabet character
DecodeTable ==
  [c \in {B64[i] : i \in DOMAIN B64} |-> (CHOOSE i \in DOMAIN B64 : B64[i] = c) - 1]

\* enc.decodeMap: the six bits of an alphabet character, 255 for any other
DecodeMap(c) == IF c \in DOMAIN DecodeTable THEN DecodeTable[c] ELSE 255

\* faulty variant: base64.RawURLEncoding, no padding
RECURSIVE EncodeRaw(_)
EncodeRaw(b) ==
  IF b = << >> THEN << >>
  ELSE LET n == IF Len(b) >= 3 THEN 3 ELSE Len(b)
           val == b[1] * 65536 + (IF n >= 2 THEN b[2] * 256 ELSE 0) + (IF n = 3 THEN b[3] ELSE 0)
           c == [k \in 1..4 |-> B64[((val \div (64 ^ (4 - k))) % 64) + 1]]
       IN SubSeq(c, 1, n + 1) \o EncodeRaw(SubSeq(b, n + 1, Len(b)))

\* base64.URLEncoding.EncodeToString: three bytes give four characters, the last group
\* is padded with "="
RECURSIVE EncodeToString(_)
EncodeToString(b) ==
  IF b = << >> THEN << >>
  ELSE LET n == IF Len(b) >= 3 THEN 3 ELSE Len(b)
           val == b[1] * 65536 + (IF n >= 2 THEN b[2] * 256 ELSE 0) + (IF n = 3 THEN b[3] ELSE 0)
           c == [k \in 1..4 |-> IF k <= n + 1 THEN B64[((val \div (64 ^ (4 - k))) % 64) + 1]
                                ELSE "="]
       IN c \o EncodeToString(SubSeq(b, n + 1, Len(b)))

\* the index of the first character at or after si that is no line break
RECURSIVE SkipNewlines(_, _)
SkipNewlines(src, si) ==
  IF si <= Len(src) /\ src[si] \in {"\n", "\r"} THEN SkipNewlines(src, si + 1) ELSE si

\* the first dlen - 1 bytes of the 24 bits the six-bit values v give:
\* uint(dbuf[0])<<18 | uint(dbuf[1])<<12 | uint(dbuf[2])<<6 | uint(dbuf[3])
QuantumBytes(v, dlen) ==
  LET at0(k) == IF k <= Len(v) THEN v[k] ELSE 0
      val == at0(1) * 262144 + at0(2) * 4096 + at0(3) * 64 + at0(4)
  IN SubSeq(<< val \div 65536, (val \div 256) % 256, val % 256 >>, 1, dlen - 1)

\* enc.decodeQuantum from index si with the six-bit values v read so far: the index
\* after the quantum, the bytes it gave and whether it met corrupt input
RECURSIVE DecodeQuantum(_, _, _)
DecodeQuantum(src, si, v) ==
  IF Len(v) = 4 THEN [si |-> si, out |-> QuantumBytes(v, 4), err |-> FALSE]
  ELSE IF si > Len(src)
  THEN [si |-> si, out |-> << >>, err |-> Len(v) # 0]
  ELSE IF DecodeMap(src[si]) # 255 THEN DecodeQuantum(src, si + 1, Append(v, DecodeMap(src[si])))
  ELSE IF src[si] \in {"\n", "\r"} THEN DecodeQuantum(src, si + 1, v)
  ELSE IF src[si] # "=" \/ Len(v) < 2 THEN [si |-> si + 1, out |-> << >>, err |-> TRUE]
  ELSE LET second == SkipNewlines(src, si + 1)
           after == IF Len(v) = 2 THEN SkipNewlines(src, second + 1)
                    ELSE SkipNewlines(src, si + 1)
       IN IF Len(v) = 2 /\ (second > Len(src) \/ src[second] # "=")
          THEN [si |-> second, out |-> << >>, err |-> TRUE]
          ELSE [si |-> after, out |-> QuantumBytes(v, Len(v)), err |-> after <= Len(src)]

\* base64.URLEncoding.DecodeString: quantum after quantum, stopping at the first
\* corrupt one; the bytes decoded until then come back together with the error
RECURSIVE DecodeString(_)
DecodeString(s) ==
  IF s = << >> THEN [bytes |-> << >>, err |-> FALSE]
  ELSE LET q == DecodeQuantum(s, 1, << >>)
           rest == DecodeString(SubSeq(s, q.si, Len(s)))
       IN IF q.err THEN [bytes |-> q.out, err |-> TRUE]
          ELSE [bytes |-> q.out \o rest.bytes, err |-> rest.err]

\* secretKey, by its characters
secretKey == <<"k", "e", "y">>

\* the digest of a message as a number below 256^MacLen
RECURSIVE Digest(_, _)
Digest(msg, h) ==
  IF msg = << >> THEN h
  ELSE Digest(Tail(msg), (h * 33 + Head(msg) + 1) % (256 ^ MacLen))

\* hmac.New(sha256.New, key), Write(msg), Sum(nil): a deterministic function of key and
\* message, MacLen bytes long
Mac(key, msg) ==
  LET h == Digest(key \o msg, 0)
  IN [i \in 1..MacLen |-> (h \div (256 ^ (MacLen - i))) % 256]

\* fmt.Sprintf("%d", n)
RECURSIVE FormatInt(_)
FormatInt(n) ==
  IF n < 0 THEN <<"-">> \o FormatInt(0 - n)
  ELSE IF n < 10 THEN << Printable[17 + n] >>
  ELSE FormatInt(n \div 10) \o << Printable[17 + (n % 10)] >>

\* the number a string of decimal digits stands for
RECURSIVE DigitsValue(_, _)
DigitsValue(b, acc) ==
  IF b = << >> THEN acc ELSE DigitsValue(Tail(b), acc * 10 + (Head(b) - 48))

\* strconv.ParseInt(string(b), 10, 64): an optional sign and at least one digit
ParseInt(b) ==
  LET signed == b # << >> /\ Head(b) \in {43, 45}
      digits == IF signed THEN Tail(b) ELSE b
  IN IF digits = << >> \/ \E i \in DOMAIN digits : digits[i] \notin 48..57
     THEN [err |-> TRUE, val |-> 0]
     ELSE [err |-> FALSE,
           val |-> IF signed /\ Head(b) = 45 THEN 0 - DigitsValue(digits, 0)
                   ELSE DigitsValue(digits, 0)]

\* strings.Split(s, sep) for a separator of one character
RECURSIVE Split(_, _)
Split(s, sep) ==
  IF \E i \in DOMAIN s : s[i] = sep
  THEN LET i == CHOOSE k \in DOMAIN s : s[k] = sep /\ \A j \in 1..(k - 1) : s[j] # sep
       IN << SubSeq(s, 1, i - 1) >> \o Split(SubSeq(s, i + 1, Len(s)), sep)
  ELSE << s >>

\* faulty variant: a token never expires
NeverExpired(t, exp) == FALSE

\* time.Now().Unix() > exp
Expired(t, exp) == t > exp

\* the token of a payload: base64url(payload) "." base64url(MAC)
Sign(payload) ==
  EncodeToString(Bytes(payload)) \o <<".">> \o EncodeToString(Mac(Bytes(secretKey), Bytes(payload)))

\* GenerateSignupToken, as string
SignupTokenString(email, org, exp) ==
  Sign(email \o <<"|">> \o org \o <<"|">> \o FormatInt(exp))

\* GenerateUserToken, as string
UserTokenString(email, tenantID, exp) ==
  Sign(email \o <<"|">> \o FormatInt(tenantID) \o <<"|">> \o FormatInt(exp))

Refused == [ok |-> FALSE, email |-> << >>, org |-> << >>, tenantID |-> 0]

\* the fields of a token's payload once the two segments are decoded (errors dropped)
\* and the signature is checked; << >> when the token is refused
SignedFields(token) ==
  LET parts == Split(token, ".")
  IN IF Len(parts) # 2 THEN << >>
     ELSE LET payloadBytes == DecodeString(parts[1]).bytes
              sigBytes == DecodeString(parts[2]).bytes
              fields == Split(payloadBytes, 124)
          IN IF Mac(Bytes(secretKey), payloadBytes) # sigBytes THEN << >>
             ELSE IF Len(fields) # 3 THEN << >>
             ELSE fields

\* ValidateSignupToken on a string at time t; e-mail and organization as bytes
ValidateSignupString(token, t) ==
  LET fields == SignedFields(token)
  IN IF fields = << >> THEN Refused
     ELSE LET exp == ParseInt(fields[3])
          IN IF exp.err \/ Expired(t, exp.val) THEN Refused
             ELSE [ok |-> TRUE, email |-> fields[1], org |-> fields[2], tenantID |-> 0]

\* ValidateUserToken on a string at time t
ValidateUserString(token, t) ==
  LET fields == SignedFields(token)
  IN IF fields = << >> THEN Refused
     ELSE LET id == ParseInt(fields[2])
              exp == ParseInt(fields[3])
          IN IF id.err \/ exp.err \/ Expired(t, exp.val) THEN Refused
             ELSE [ok |-> TRUE, email |-> fields[1], org |-> << >>, tenantID |-> id.val]

\* ------------------------------------------------- Resolve on its own
\* the characters of the Host headers tried: a lowercase and a capital letter, the root
\* domain's letter, a digit, the label separator and the port separator
HostChars == {"w", "A", "x", "8", ".", ":"}

\* every Host header of at most MaxHostLen characters
HostHeaders == UNION {[1..n -> HostChars] : n \in 0..MaxHostLen}

NotResolved == [done |-> FALSE, err |-> FALSE, sub |-> << >>]

\* TenantMiddleware's call s.Resolve(r) for the request's Host header
ResolveHost ==
  /\ ~resolved.done
  /\ LET r == ResolveFor(rDomain, rHost)
     IN resolved' = [done |-> TRUE, err |-> r.err, sub |-> r.sub]
  /\ UNCHANGED << provVars, pipeVars, rHost, rDomain, generated, wire, verdict, clock, rateVars, resetVars >>

\* the default of APP_DOMAIN in LoadDefaultConfig
DefaultDomain == <<"l", "o", "c", "a", "l", "h", "o", "s", "t", ":", "9", "0", "0", "3">>

\* getEnv: the value of the environment variable, the fallback when it is empty or unset
getEnv(value, fallback) == IF value # << >> THEN value ELSE fallback

\* Config.Domain as LoadDefaultConfig sets it, given the value of APP_DOMAIN
LoadDefaultConfig(appDomain) == getEnv(appDomain, DefaultDomain)

\* values of APP_DOMAIN: unset, a one-label and a two-label domain, a domain with port
AppDomains == {<< >>, <<"x">>, <<"x", ".", "w">>, <<"x", ":", "8">>}

\* the subdomains requested: every lowercase word of at most MaxSlugLen characters
\* but www
ConfigSlugs ==
  UNION {[1..n -> {"a", "b", "8", "w"}] : n \in 1..MaxSlugLen} \ {<<"w", "w", "w">>}

\* the Host headers for a root domain: the domain itself and its subdomains
ConfigHosts(domain) == {domain} \cup {slug \o <<".">> \o domain : slug \in ConfigSlugs}

\* ------------------------------------------------- the codec on its own
\* e-mail addresses emailRegex accepts, organization names whose subdomain
\* subdomainRegex accepts, tenant ids and expiry seconds
TokenInputs ==
  [emails |-> { <<"a", "@", "x", ".", "i", "o">>,
                <<"b", "-", "c", "@", "x", ".", "i", "o">> },
   orgs |-> { <<"c">>, <<"A", " ", "b">> },
   tenantIDs |-> {1, 12},
   expiries |-> {1, 2}]

NoMint == [kind |-> "none", email |-> << >>, org |-> << >>, tenantID |-> 0, exp |-> 0,
           token |-> << >>]

NoVerdict == [done |-> FALSE, by |-> "none", ok |-> FALSE, email |-> << >>, org |-> << >>,
              tenantID |-> 0]

\* EnrollHandler's call of GenerateSignupToken; the token leaves in the verification link
IssueSignup(email, org, exp) ==
  /\ generated.kind = "none"
  /\ generated' = [kind |-> "signup", email |-> email, org |-> org, tenantID |-> 0,
                exp |-> exp, token |-> SignupTokenString(email, org, exp)]
  /\ wire' = SignupTokenString(email, org, exp)
  /\ UNCHANGED << provVars, pipeVars, rHost, rDomain, resolved, verdict, clock, rateVars, resetVars >>

\* RegisterHandler's call of GenerateUserToken
IssueUser(email, tenantID, exp) ==
  /\ generated.kind = "none"
  /\ generated' = [kind |-> "user", email |-> email, org |-> << >>, tenantID |-> tenantID,
                exp |-> exp, token |-> UserTokenString(email, tenantID, exp)]
  /\ wire' = UserTokenString(email, tenantID, exp)
  /\ UNCHANGED << provVars, pipeVars, rHost, rDomain, resolved, verdict, clock, rateVars, resetVars >>

\* the alphabet character whose six bits differ from c's in bit k
FlipBit(c, k) ==
  LET v == DecodeMap(c)
  IN B64[(IF (v \div (2 ^ k)) % 2 = 1 THEN v - 2 ^ k ELSE v + 2 ^ k) + 1]

\* the strings one change away from the token s: one bit of one character flipped, one
\* character inserted, one character dropped
Altered(s) ==
  {[s EXCEPT ![i] = FlipBit(s[i], k)] :
     i \in {j \in DOMAIN s : DecodeMap(s[j]) # 255}, k \in 0..5}
  \cup {SubSeq(s, 1, i) \o << c >> \o SubSeq(s, i + 1, Len(s)) :
          i \in 0..Len(s), c \in {"\n", "!", "."}}
  \cup {SubSeq(s, 1, i - 1) \o SubSeq(s, i + 1, Len(s)) : i \in DOMAIN s}

\* the token query parameter is whatever the client sends: the issued token with one
\* change
Tamper(s) ==
  /\ generated.kind # "none"
  /\ wire = generated.token
  /\ ~verdict.done
  /\ s # wire
  /\ wire' = s
  /\ UNCHANGED << provVars, pipeVars, rHost, rDomain, resolved, generated, verdict, clock, rateVars, resetVars >>

\* VerifyHandler's call utils.ValidateSignupToken(token)
ValidateSignup ==
  /\ wire # << >> /\ ~verdict.done
  /\ LET v == ValidateSignupString(wire, clock)
     IN verdict' = [done |-> TRUE, by |-> "signup", ok |-> v.ok, email |-> v.email,
                    org |-> v.org, tenantID |-> v.tenantID]
  /\ UNCHANGED << provVars, pipeVars, rHost, rDomain, resolved, generated, wire, clock, rateVars, resetVars >>

\* ValidateUserToken(token)
ValidateUser ==
  /\ wire # << >> /\ ~verdict.done
  /\ LET v == ValidateUserString(wire, clock)
     IN verdict' = [done |-> TRUE, by |-> "user", ok |-> v.ok, email |-> v.email,
                    org |-> v.org, tenantID |-> v.tenantID]
  /\ UNCHANGED << provVars, pipeVars, rHost, rDomain, resolved, generated, wire, clock, rateVars, resetVars >>

\* ------------------------------------------------- RateLimit on its own
\* rl.limit and rl.window of NewRateLimiter(10, time.Minute); a minute is one tick
limit == 10
window == 1

\* values of r.RemoteAddr
RemoteAddrs == {"10.0.0.1:5", "10.0.0.2:5"}

NoFlight == [pc |-> "idle", ip |-> "", n |-> 0, out |-> "none"]

\* make(map[string]int): a missing key reads as 0
EmptyVisits == [a \in RemoteAddrs |-> 0]

\* the wrapper as RateLimit returns it, no request in it
RateIdle ==
  /\ visits = EmptyVisits /\ lastReset = 0 /\ mu = 0
  /\ inflight = [p \in Reqs |-> NoFlight]
  /\ reachedNext = EmptyVisits /\ arrivals = EmptyVisits

rateFrame ==
  UNCHANGED << provVars, pipeVars, rHost, rDomain, resolved, generated, wire, verdict,
               resetVars >>

\* time passes
RateTick ==
  /\ clock < MaxClock
  /\ clock' = clock + 1
  /\ rateFrame /\ UNCHANGED rateVars

\* a request from address ip enters the wrapper's handler function
RateArrive(p, ip) ==
  /\ inflight[p].pc = "idle"
  /\ visits[ip] < MaxVisits
  /\ inflight' = [inflight EXCEPT ![p] = [NoFlight EXCEPT !.pc = "lock", !.ip = ip]]
  /\ rateFrame /\ UNCHANGED << clock, visits, lastReset, mu, reachedNext, arrivals >>

\* faulty variant: the mutex is taken although another request holds it
LockAnyway(p) ==
  /\ inflight[p].pc = "lock"
  /\ mu' = p
  /\ inflight' = [inflight EXCEPT ![p].pc = "reset"]
  /\ rateFrame /\ UNCHANGED << clock, visits, lastReset, reachedNext, arrivals >>

\* rl.mu.Lock(): blocks while another request holds the mutex
Lock(p) ==
  /\ inflight[p].pc = "lock"
  /\ mu = 0
  /\ mu' = p
  /\ inflight' = [inflight EXCEPT ![p].pc = "reset"]
  /\ rateFrame /\ UNCHANGED << clock, visits, lastReset, reachedNext, arrivals >>

\* faulty variant: the counters are emptied as soon as the window is reached
WindowReached(since) == since >= window

\* time.Since(rl.lastReset) > rl.window
WindowPassed(since) == since > window

\* Step 1: a new map and a new lastReset when the window has passed
ResetVisits(p) ==
  /\ inflight[p].pc = "reset"
  /\ IF WindowPassed(clock - lastReset)
     THEN /\ visits' = EmptyVisits /\ lastReset' = clock
          /\ reachedNext' = EmptyVisits /\ arrivals' = EmptyVisits
     ELSE UNCHANGED << visits, lastReset, reachedNext, arrivals >>
  /\ inflight' = [inflight EXCEPT ![p].pc = "read"]
  /\ rateFrame /\ UNCHANGED << clock, mu >>

\* Step 2, rl.visits[ip]++: the read of the counter
ReadVisits(p) ==
  /\ inflight[p].pc = "read"
  /\ inflight' = [inflight EXCEPT ![p].pc = "write", ![p].n = visits[inflight[p].ip]]
  /\ rateFrame /\ UNCHANGED << clock, visits, lastReset, mu, reachedNext, arrivals >>

\* Step 2, rl.visits[ip]++: the write of the counter, then the comparison with the
\* limit: http.Error 429 and return, or on to the wrapped handler
WriteVisits(p) ==
  /\ inflight[p].pc = "write"
  /\ LET ip == inflight[p].ip
         count == inflight[p].n + 1
     IN /\ visits' = [visits EXCEPT ![ip] = count]
        /\ arrivals' = [arrivals EXCEPT ![ip] = @ + 1]
        /\ inflight' = IF count > limit
                       THEN [inflight EXCEPT ![p].pc = "unlock", ![p].out = "429"]
                       ELSE [inflight EXCEPT ![p].pc = "next"]
  /\ rateFrame /\ UNCHANGED << clock, lastReset, mu, reachedNext >>

\* Step 3: next.ServeHTTP(w, r) runs and returns
ServeNext(p) ==
  /\ inflight[p].pc = "next"
  /\ reachedNext' = [reachedNext EXCEPT ![inflight[p].ip] = @ + 1]
  /\ inflight' = [inflight EXCEPT ![p].pc = "unlock", ![p].out = "next"]
  /\ rateFrame /\ UNCHANGED << clock, visits, lastReset, mu, arrivals >>

\* the deferred rl.mu.Unlock() as the handler function returns
Unlock(p) ==
  /\ inflight[p].pc = "unlock"
  /\ mu' = IF mu = p THEN 0 ELSE mu
  /\ inflight' = [inflight EXCEPT ![p].pc = "idle"]
  /\ rateFrame /\ UNCHANGED << clock, visits, lastReset, reachedNext, arrivals >>

\* ------------------------------------------------- /reset/confirm
\* the token query values submitted: none, a token with a row, one whose row has expired
ResetTokens == {"", "T", "X"}

\* passwords isValidPassword accepts
NewPasswords == {"p2", "p3"}

\* the rows RequestResetPasswordHandler inserted for the user of id 1 in tenant 1, one
\* of them expired
SeedResets ==
  { [token |-> "T", user_id |-> 1, tenant_id |-> 1, expires_at |-> MaxClock],
    [token |-> "X", user_id |-> 1, tenant_id |-> 1, expires_at |-> 0] }

NoReset == [pc |-> "form", token |-> "", password |-> "", userID |-> 0, tenantID |-> 0,
            status |-> 0]

\* nothing submitted to /reset/confirm
ResetIdle ==
  /\ resets = SeedResets
  /\ hashes = [u \in {1} |-> PasswordOf([id |-> u])]
  /\ rst = [p \in Reqs |-> NoReset]
  /\ applied = [t \in {r.token : r \in SeedResets} |-> 0]

resetFrame ==
  UNCHANGED << provVars, pipeVars, rHost, rDomain, resolved, generated, wire, verdict,
               clock, visits, lastReset, mu, arrivals >>

\* the handler returns to RateLimit with this status written
ResetReturns(p, token, password, status) ==
  /\ rst' = [rst EXCEPT ![p] = [NoReset EXCEPT !.token = token, !.password = password,
                                               !.status = status]]
  /\ inflight' = [inflight EXCEPT ![p].pc = "unlock", ![p].out = "next"]

\* faulty variant: the row of the token although it has expired
SelectAnyReset(token, t) == {r \in resets : r.token = token}

\* SELECT user_id, tenant_id FROM password_resets WHERE token = ? AND expires_at > ?
SelectReset(token, t) == {r \in resets : r.token = token /\ r.expires_at > t}

\* ResetPasswordHandler, POST, Steps 2 to 5: the form is read and the token's row
\* fetched; 400 without token or without a row that has not expired
ResetFetch(p, token, password) ==
  /\ inflight[p].pc = "next" /\ rst[p].pc = "form"
  /\ reachedNext' = [reachedNext EXCEPT ![inflight[p].ip] = @ + 1]
  /\ LET rows == SelectReset(token, clock)
         row == CHOOSE r \in rows : TRUE
     IN IF token = "" \/ rows = {}
        THEN ResetReturns(p, token, password, 400)
        ELSE /\ rst' = [rst EXCEPT ![p] = [pc |-> "update", token |-> token,
                                           password |-> password, userID |-> row.user_id,
                                           tenantID |-> row.tenant_id, status |-> 0]]
             /\ UNCHANGED inflight
  /\ resetFrame /\ UNCHANGED << resets, hashes, applied >>

\* Steps 6 and 7: UPDATE users SET password_hash = ? WHERE id = ? AND tenant_id = ?;
\* 500 when the statement fails
ResetUpdate(p, ok) ==
  /\ inflight[p].pc = "next" /\ rst[p].pc = "update"
  /\ IF ok
     THEN /\ hashes' = [u \in DOMAIN hashes |->
                          IF \E x \in users : x.id = u /\ u = rst[p].userID
                                           /\ x.tenant_id = rst[p].tenantID
                          THEN rst[p].password ELSE hashes[u]]
          /\ applied' = [applied EXCEPT ![rst[p].token] = @ + 1]
          /\ rst' = [rst EXCEPT ![p].pc = "delete"]
          /\ UNCHANGED inflight
     ELSE /\ ResetReturns(p, rst[p].token, rst[p].password, 500)
          /\ UNCHANGED << hashes, applied >>
  /\ resetFrame /\ UNCHANGED << resets, reachedNext >>

\* Steps 8 and 9: DELETE FROM password_resets WHERE token = ?, a failure of which is
\* logged only, then the redirect to /login?message=reset
ResetDelete(p, ok) ==
  /\ inflight[p].pc = "next" /\ rst[p].pc = "delete"
  /\ resets' = IF ok THEN {r \in resets : r.token # rst[p].token} ELSE resets
  /\ ResetReturns(p, rst[p].token, rst[p].password, 303)
  /\ resetFrame /\ UNCHANGED << hashes, applied, reachedNext >>

\* no Host header under test, no token issued or presented, no request in RateLimit
LibIdle ==
  /\ rHost = << >> /\ rDomain = Domain /\ resolved = NotResolved
  /\ generated = NoMint /\ wire = << >> /\ verdict = NoVerdict
  /\ clock = 0
  /\ RateIdle
  /\ ResetIdle

\* ---------------------------------------------------------- specification
\* The store at start: the organization "c" has enrolled and followed its /verify link
\* (VerifyTenantRow, VerifyUserRow, VerifyMemberRow on an empty store).
SeedEmail == <<"c", "@", "x">>

SeedTenant ==
  [id |-> 1, name |-> <<"c">>, slug |-> <<"c">>, subdomain |-> <<"c">>, email |-> SeedEmail,
   is_active |-> TRUE, is_deleted |-> FALSE, allow_signins |-> TRUE]

SeedUser ==
  [id |-> 1, email |-> SeedEmail, is_verified |-> TRUE, tenant_id |-> 1, role |-> "owner"]

SeedMember == [user_id |-> 1, tenant_id |-> 1, role |-> "owner", is_active |-> TRUE]

\* no pending signup, no request, no lock held
ProvIdle ==
  /\ pendingT = {} /\ pendingU = {}
  /\ readers = {} /\ writer = 0
  /\ now = 0
  /\ issued = {}
  /\ pc = [p \in Reqs |-> "idle"]
  /\ handler = [p \in Reqs |-> "none"]
  /\ rtoken = [p \in Reqs |-> NoToken]
  /\ rtenant = [p \in Reqs |-> 0]
  /\ loc = [p \in Reqs |-> NoLoc]
  /\ tx = [p \in Reqs |-> EmptyTx]
  /\ outcome = [p \in Reqs |-> "none"]
  /\ live = [p \in Reqs |-> FALSE]
  /\ late = [p \in Reqs |-> FALSE]
  /\ dup = [p \in Reqs |-> FALSE]
  /\ faultAt = [p \in Reqs |-> "none"]
  /\ lost = [p \in Reqs |-> FALSE]
  /\ faultsLeft = MaxFaults
  /\ confirmed = {}

InitProv ==
  /\ tenants = {SeedTenant} /\ users = {SeedUser} /\ memberships = {SeedMember}
  /\ ProvIdle
  /\ PipeIdle
  /\ LibIdle

\* the hosts a request can arrive on: the root domain or an active tenant's subdomain
ActiveTenantIds == {t.id : t \in {x \in tenants : x.is_active /\ ~x.is_deleted}}

NextProv ==
  \/ \E e \in RawEmails, o \in RawOrgs : Enroll(e, o)
  \/ \E e \in RawEmails, t \in tenants : Register(e, t)
  \/ Tick
  \/ \E p \in Reqs, tok \in issued \cup {BadToken} : Arrive(p, "verify", tok, 0)
  \/ \E p \in Reqs, tok \in issued \cup {BadToken, NoToken}, ten \in ActiveTenantIds \cup {0} :
       Arrive(p, "confirm", tok, ten)
  \/ \E p \in Reqs : VerifyPending(p)
  \/ \E p \in Reqs : VerifyTenant(p)
  \/ \E p \in Reqs : VerifyUser(p)
  \/ \E p \in Reqs : VerifyInsertTenant(p)
  \/ \E p \in Reqs : VerifyInsertUser(p)
  \/ \E p \in Reqs : VerifyInsertMember(p)
  \/ \E p \in Reqs : VerifyDeletePending(p)
  \/ \E p \in Reqs : VerifyCommit(p)
  \/ \E p \in Reqs : ConfirmPendingUser(p)
  \/ \E p \in Reqs : ConfirmUserExists(p)
  \/ \E p \in Reqs : ConfirmUserDupDelete(p)
  \/ \E p \in Reqs : ConfirmUserDupCommit(p)
  \/ \E p \in Reqs : ConfirmInsertUser(p)
  \/ \E p \in Reqs : ConfirmInsertMember(p)
  \/ \E p \in Reqs : ConfirmDeletePendingUser(p)
  \/ \E p \in Reqs : ConfirmCommitUser(p)
  \/ \E p \in Reqs : ConfirmPendingTenant(p)
  \/ \E p \in Reqs : ConfirmTenantUserExists(p)
  \/ \E p \in Reqs : ConfirmSubdomainExists(p)
  \/ \E p \in Reqs : ConfirmTenantDupDelete(p)
  \/ \E p \in Reqs : ConfirmTenantDupCommit(p)
  \/ \E p \in Reqs : ConfirmInsertTenant(p)
  \/ \E p \in Reqs : ConfirmInsertOwner(p)
  \/ \E p \in Reqs : ConfirmInsertOwnerMember(p)
  \/ \E p \in Reqs : ConfirmDeletePendingTenant(p)
  \/ \E p \in Reqs : ConfirmCommitTenant(p)

SpecProv == InitProv /\ [][NextProv]_vars

\* The store at start of the chain: a second organization, "Ab", has enrolled and
\* followed its /verify link as well.
SecondEmail == <<"a", "@", "x">>

SecondTenant ==
  [id |-> 2, name |-> <<"A", "b">>, slug |-> <<"a", "b">>, subdomain |-> <<"a", "b">>,
   email |-> SecondEmail, is_active |-> TRUE, is_deleted |-> FALSE, allow_signins |-> TRUE]

SecondUser ==
  [id |-> 2, email |-> SecondEmail, is_verified |-> TRUE, tenant_id |-> 2, role |-> "owner"]

SecondMember == [user_id |-> 2, tenant_id |-> 2, role |-> "owner", is_active |-> TRUE]

InitPipe ==
  /\ tenants = {SeedTenant, SecondTenant}
  /\ users = {SeedUser, SecondUser}
  /\ memberships = {SeedMember, SecondMember}
  /\ ProvIdle
  /\ PipeIdle
  /\ LibIdle

NextPipe ==
  \/ \E u \in users, tok \in SessionTokens : CreateSession(u.id, u.tenant_id, tok)
  \/ Tick
  \/ \E h \in Hosts, m \in Methods, s \in SessionCookies, c \in CsrfCookies,
        f \in CsrfForms, x \in CsrfHeaders :
       Receive(h, m, s, c, f, x)
  \/ LoggerStep
  \/ RecoverStep
  \/ CSRFStep
  \/ SessionStep
  \/ TenantStep
  \/ LangStep
  \/ MuxStep

SpecPipe == InitPipe /\ [][NextPipe]_vars

\* The store of the session handlers: two more organizations have enrolled; an
\* operator has deactivated "d" and soft-deleted "e" (no handler of the core does)
InactiveTenants ==
  { [id |-> 3, name |-> <<"d">>, slug |-> <<"d">>, subdomain |-> <<"d">>,
     email |-> <<"d", "@", "x">>, is_active |-> FALSE, is_deleted |-> FALSE,
     allow_signins |-> TRUE],
    [id |-> 4, name |-> <<"e">>, slug |-> <<"e">>, subdomain |-> <<"e">>,
     email |-> <<"e", "@", "x">>, is_active |-> TRUE, is_deleted |-> TRUE,
     allow_signins |-> TRUE] }

\* Host headers of the requests: those above and the two organizations' subdomains
AuthHosts == Hosts \cup { <<"d", ".", "x">>, <<"e", ".", "x">> }

\* Requests whose CSRF token pair matches run the whole chain and a session handler,
\* one request after the other; at any time one store operation, or none, returns errors
InitAuth ==
  /\ tenants = {SeedTenant, SecondTenant} \cup InactiveTenants
  /\ users = {SeedUser, SecondUser}
  /\ memberships = {SeedMember, SecondMember}
  /\ ProvIdle
  /\ PipeIdle
  /\ LibIdle

NextAuth ==
  \/ Tick
  \/ \E op \in {"none", "fetch", "lookup", "user", "create"} : StoreTurns(op)
  \/ \E h \in AuthHosts, m \in {"GET", "POST"}, s \in SessionCookies :
       Receive(h, m, s, "k1", "k1", "")
  \/ LoggerStep
  \/ RecoverStep
  \/ CSRFStep
  \/ SessionStep
  \/ TenantStep
  \/ LangStep
  \/ MuxStep
  \/ \E e \in Forms.emails, p \in Forms.passwords, tok \in SessionTokens :
       LoginHandler(e, p, tok)
  \/ LogoutHandler
  \/ RequireAuth
  \/ \E e \in Forms.emails, tok \in SessionTokens, ok \in BOOLEAN :
       RequestResetPasswordHandler(e, tok, ok)
  \/ Finish

SpecAuth == InitAuth /\ [][NextAuth]_vars

\* Resolve applied to every Host header of at most MaxHostLen characters; the store
\* plays no part
InitResolve ==
  /\ tenants = {SeedTenant} /\ users = {SeedUser} /\ memberships = {SeedMember}
  /\ ProvIdle
  /\ PipeIdle
  /\ generated = NoMint /\ wire = << >> /\ verdict = NoVerdict /\ clock = 0
  /\ RateIdle
  /\ ResetIdle
  /\ rHost \in HostHeaders /\ rDomain = Domain
  /\ resolved = NotResolved

NextResolve == ResolveHost

SpecResolve == InitResolve /\ [][NextResolve]_vars

\* Resolve of a resolver configured by LoadDefaultConfig, for each value of APP_DOMAIN,
\* applied to the Host headers naming that domain and its subdomains
InitConfig ==
  /\ tenants = {SeedTenant} /\ users = {SeedUser} /\ memberships = {SeedMember}
  /\ ProvIdle
  /\ PipeIdle
  /\ generated = NoMint /\ wire = << >> /\ verdict = NoVerdict /\ clock = 0
  /\ RateIdle
  /\ ResetIdle
  /\ rDomain \in {LoadDefaultConfig(d) : d \in AppDomains}
  /\ rHost \in ConfigHosts(rDomain)
  /\ resolved = NotResolved

NextConfig == ResolveHost

SpecConfig == InitConfig /\ [][NextConfig]_vars

\* The token functions applied to tokens generated from every combination of the
\* inputs above, presented as issued or with one change, at every second up to MaxClock
InitToken ==
  /\ tenants = {SeedTenant} /\ users = {SeedUser} /\ memberships = {SeedMember}
  /\ ProvIdle
  /\ PipeIdle
  /\ rHost = << >> /\ rDomain = Domain /\ resolved = NotResolved
  /\ generated = NoMint /\ wire = << >> /\ verdict = NoVerdict
  /\ clock \in 0..MaxClock
  /\ RateIdle
  /\ ResetIdle

NextToken ==
  \/ \E e \in TokenInputs.emails, o \in TokenInputs.orgs, x \in TokenInputs.expiries :
       IssueSignup(e, o, x)
  \/ \E e \in TokenInputs.emails, i \in TokenInputs.tenantIDs, x \in TokenInputs.expiries :
       IssueUser(e, i, x)
  \/ \E s \in Altered(wire) : Tamper(s)
  \/ ValidateSignup
  \/ ValidateUser

SpecToken == InitToken /\ [][NextToken]_vars

\* /register on its own: concurrent POSTs on the tenants' domains while time passes and
\* statements may fail
InitRegister ==
  /\ tenants = {SeedTenant, SecondTenant}
  /\ users = {SeedUser, SecondUser}
  /\ memberships = {SeedMember, SecondMember}
  /\ ProvIdle
  /\ PipeIdle
  /\ LibIdle

NextRegister ==
  \/ Tick
  \/ \E p \in Reqs, e \in RegisterEmails, ten \in ActiveTenantIds : RegisterArrive(p, e, ten)
  \/ \E p \in Reqs : RegisterCount(p)
  \/ \E p \in Reqs : RegisterInsert(p)
  \/ \E p \in Reqs : RegisterCommit(p)

SpecRegister == InitRegister /\ [][NextRegister]_vars

\* Two requests at a time pass through one RateLimit wrapper, from two addresses,
\* again and again while the clock runs
InitRate ==
  /\ tenants = {SeedTenant} /\ users = {SeedUser} /\ memberships = {SeedMember}
  /\ ProvIdle
  /\ PipeIdle
  /\ LibIdle

NextRate ==
  \/ RateTick
  \/ \E p \in Reqs, ip \in RemoteAddrs : RateArrive(p, ip)
  \/ \E p \in Reqs : Lock(p)
  \/ \E p \in Reqs : ResetVisits(p)
  \/ \E p \in Reqs : ReadVisits(p)
  \/ \E p \in Reqs : WriteVisits(p)
  \/ \E p \in Reqs : ServeNext(p)
  \/ \E p \in Reqs : Unlock(p)

SpecRate == InitRate /\ [][NextRate]_vars

\* /reset/confirm as main mounts it, RateLimit around ResetPasswordHandler: two
\* connections submit tokens and new passwords, over and over, from one address
InitReset == InitRate

NextReset ==
  \/ \E p \in Reqs : RateArrive(p, "10.0.0.1:5")
  \/ \E p \in Reqs : Lock(p)
  \/ \E p \in Reqs : ResetVisits(p)
  \/ \E p \in Reqs : ReadVisits(p)
  \/ \E p \in Reqs : WriteVisits(p)
  \/ \E p \in Reqs, t \in ResetTokens, w \in NewPasswords : ResetFetch(p, t, w)
  \/ \E p \in Reqs, ok \in BOOLEAN : ResetUpdate(p, ok)
  \/ \E p \in Reqs, ok \in BOOLEAN : ResetDelete(p, ok)
  \/ \E p \in Reqs : Unlock(p)

SpecReset == InitReset /\ [][NextReset]_vars

\* ------------------------------------------------------------------ claims
\* the tenants the request's Host header resolves to
HostTenants ==
  IF Resolve(req.host).err THEN {} ELSE {t.id : t \in Fetch(Resolve(req.host).sub)}

\* the request was answered, not by a CSRF rejection; its host is the domain of a
\* tenant; SessionMiddleware found its session cookie valid, the session is still
\* valid, and its user belongs to another tenant
MismatchedSession ==
  /\ at = Served
  /\ resp.status \notin {400, 403, 500}
  /\ HostTenants # {}
  /\ seen.binding # -1
  /\ \E u \in GetSession(req.session) : u.tenant_id \notin HostTenants

\* C1: a request on tenant B's domain with a valid session of a user of tenant A
\* reaches the handler without a user, and the session cookie is cleared
C1_MismatchedSessionIsAnonymous ==
  MismatchedSession =>
    /\ seen.reached
    /\ seen.user = 0
    /\ resp.sessionCleared

\* stage a is entered before the i-th stage entered
Before(a, i) == \E j \in 1..(i - 1) : ran[j] = a

\* C2: every request passes tenant resolution before session validation and session
\* validation before the CSRF stage, and the binding check of SessionMiddleware has
\* the tenant of the request's host in its context
C2_TenantThenSessionThenCSRF ==
  /\ \A i \in DOMAIN ran :
       /\ ran[i] = "Session" => Before("Tenant", i)
       /\ ran[i] = "CSRF" => Before("Session", i)
  /\ (seen.binding # -1 /\ HostTenants # {}) => seen.binding \in HostTenants

Done(p) == pc[p] = "done"

NoFaults == faultsLeft = MaxFaults

\* rows that keep the signup behind token tok from being provisioned (again)
Taken(tok) ==
  \/ \E u \in users : u.email = tok.email
  \/ /\ tok.kind = "signup"
     /\ \E t \in tenants :
          t.name = tok.f2 \/ t.subdomain = SubdomainOf(tok.f2) \/ t.email = tok.email

\* the rows provisioned for a confirmed token: one user, one membership of that user
\* and, for a tenant signup, one tenant of that name
OneSetFor(tok) ==
  /\ Cardinality({u \in users : u.email = tok.email}) = 1
  /\ \A u \in users : u.email = tok.email =>
       Cardinality({m \in memberships : m.user_id = u.id}) = 1
  /\ tok.kind = "signup" => Cardinality({t \in tenants : t.name = tok.f2}) = 1
  /\ Cardinality({u.id : u \in users}) = Cardinality(users)
  /\ Cardinality({t.id : t \in tenants}) = Cardinality(tenants)

Finishes(p) == pc[p] # "done" /\ pc'[p] = "done"

StoreUnchanged == UNCHANGED << tenants, users, memberships, pendingT, pendingU >>

\* no pending row carries token tok after this step
ConsumedNext(tok) ==
  /\ \A r \in pendingT' : r.token # tok
  /\ \A r \in pendingU' : r.token # tok

\* no pending row carries token tok
Consumed(tok) ==
  /\ \A r \in pendingT : r.token # tok
  /\ \A r \in pendingU : r.token # tok

\* C4: a confirmation that arrives after its token was confirmed (no store failure,
\* the signup not issued again) is answered not-found (link already used) and
\* leaves tenants, users and memberships alone
C4_ReplayIsNotFound ==
  [][\A p \in Reqs :
       (late[p] /\ Finishes(p) /\ faultsLeft' = MaxFaults /\ Consumed(rtoken[p]))
         => (outcome'[p] = "not_found" /\ UNCHANGED << tenants, users, memberships >>)]_vars

SameSlugRace(p, q) ==
  /\ p # q
  /\ rtoken[p].kind = "signup" /\ rtoken[q].kind = "signup"
  /\ rtoken[p].email # rtoken[q].email
  /\ SubdomainOf(rtoken[p].f2) = SubdomainOf(rtoken[q].f2)
  /\ live[p] /\ live[q] /\ Done(p) /\ Done(q) /\ NoFaults

\* C5: two pending tenant signups of different people whose names give one subdomain,
\* confirmed concurrently: one is confirmed, the other is told the subdomain is taken,
\* and one tenant has the subdomain
C5_SlugRaceIsBusinessRejection ==
  \A p, q \in Reqs :
    SameSlugRace(p, q) =>
      /\ \/ outcome[p] = "confirmed" /\ outcome[q] \in {"subdomain_exists", "conflict"}
         \/ outcome[q] = "confirmed" /\ outcome[p] \in {"subdomain_exists", "conflict"}
      /\ Cardinality({t \in tenants : t.subdomain = SubdomainOf(rtoken[p].f2)}) = 1

\* C6: in every committed store state each tenant has a user and each user has the
\* membership row of its own tenant
C6_NoPartialProvisioning ==
  /\ \A t \in tenants : \E u \in users : u.tenant_id = t.id
  /\ \A u \in users :
       \E m \in memberships : m.user_id = u.id /\ m.tenant_id = u.tenant_id

\* a statement failed after the tenant and the user had been inserted, and the
\* rollback discarded them
C6_Witness ==
  \E p \in Reqs :
    /\ Done(p) /\ lost[p]
    /\ faultAt[p] \in {"v_ins_member", "v_del_pending", "v_commit",
                       "c_t_ins_member", "c_t_commit", "c_u_ins_member", "c_u_commit"}

\* the statements of the provisioning transaction that C7 names
ProvisioningWrites ==
  {"v_ins_tenant", "v_ins_user", "v_ins_member", "v_del_pending", "v_commit",
   "c_u_ins_user", "c_u_ins_member", "c_u_del_pending", "c_u_commit",
   "c_t_ins_tenant", "c_t_ins_user", "c_t_ins_member", "c_t_del_pending", "c_t_commit"}

\* C7: when an insert, the delete of the pending row or the commit fails, the
\* confirmation ends in internal_error and persists nothing, the pending row stays
C7_FailureIsInternalError ==
  [][\A p \in Reqs :
       (Finishes(p) /\ faultAt'[p] \in ProvisioningWrites)
         => (outcome'[p] = "internal_error" /\ StoreUnchanged)]_vars

BusinessRejections == {"already_registered", "already_verified", "subdomain_exists", "conflict"}

\* C8: a confirmation that ends in a business rejection has deleted the pending row
C8_RejectionConsumesToken ==
  [][\A p \in Reqs :
       (Finishes(p) /\ outcome'[p] \in BusinessRejections /\ faultAt'[p] = "none")
         => ConsumedNext(rtoken[p])]_vars

\* C9: a confirmed tenant signup commits one active tenant whose slug and subdomain
\* are the name lowercased without spaces, one verified owner of it, one active
\* owner membership, and the deletion of the pending row
C9_TenantSignupRows ==
  [][\A p \in Reqs :
       (/\ Finishes(p) /\ outcome'[p] = "confirmed"
        /\ rtoken[p].kind = "signup" /\ faultAt'[p] = "none")
         => LET newT == tenants' \ tenants
                newU == users' \ users
                newM == memberships' \ memberships
            IN /\ Cardinality(newT) = 1 /\ Cardinality(newU) = 1 /\ Cardinality(newM) = 1
               /\ \A t \in newT, u \in newU, m \in newM :
                    /\ t.slug = SubdomainOf(rtoken[p].f2)
                    /\ t.subdomain = SubdomainOf(rtoken[p].f2)
                    /\ t.is_active
                    /\ u.is_verified /\ u.role = "owner" /\ u.tenant_id = t.id
                    /\ m.is_active /\ m.role = "owner"
                    /\ m.user_id = u.id /\ m.tenant_id = t.id
               /\ ConsumedNext(rtoken[p])]_vars

\* the live pending user signups that carry request p's token
PendingUserRows(p) == {r \in pendingU : r.token = rtoken[p] /\ r.expires_at > now}

\* C10: /confirm with the token of a live pending user signup, no store failure.
\* On the root domain or on another tenant's domain it answers invalid_token and
\* changes nothing; on the tenant of the pending row it goes on to the duplicate
\* check, and when it confirms it has added one member user of that tenant and one
\* active member membership for it.
C10_UserSignupTenantBound ==
  [][\A p \in Reqs :
       /\ (pc[p] = "c_token" /\ pc'[p] # "c_token" /\ faultAt'[p] = "none")
            => \A r \in PendingUserRows(p) :
                 IF rtenant[p] = 0 \/ rtenant[p] # r.tenant_id
                 THEN pc'[p] = "done" /\ outcome'[p] = "invalid_token" /\ StoreUnchanged
                 ELSE pc'[p] = "c_u_exists"
       /\ (Finishes(p) /\ outcome'[p] = "confirmed" /\ rtoken[p].kind = "user")
            => LET newU == users' \ users
                   newM == memberships' \ memberships
               IN /\ rtenant[p] = rtoken[p].f2
                  /\ tenants' = tenants
                  /\ Cardinality(newU) = 1 /\ Cardinality(newM) = 1
                  /\ \A u \in newU, m \in newM :
                       /\ u.email = rtoken[p].email
                       /\ u.role = "member" /\ u.tenant_id = rtoken[p].f2
                       /\ m.role = "member" /\ m.is_active
                       /\ m.user_id = u.id /\ m.tenant_id = rtoken[p].f2]_vars

\* a live user-signup token was presented on another tenant's domain and refused
C10_Witness ==
  \E p \in Reqs :
    /\ Done(p) /\ handler[p] = "confirm" /\ rtoken[p].kind = "user"
    /\ rtenant[p] # 0 /\ rtenant[p] # rtoken[p].f2
    /\ outcome[p] = "invalid_token" /\ faultAt[p] = "none"
    /\ PendingUserRows(p) # {}

\* C11: a confirmation that finds its pending row while a user with the signup's
\* e-mail exists (no store failure) is answered already registered and creates no
\* tenant, user or membership
C11_ExistingUserIsAlreadyRegistered ==
  [][\A p \in Reqs :
       (Finishes(p) /\ live[p] /\ dup[p] /\ faultsLeft' = MaxFaults)
         => /\ outcome'[p] \in {"already_registered", "already_verified"}
            /\ UNCHANGED << tenants, users, memberships >>]_vars

\* the request is in CSRFMiddleware and this step is CSRFMiddleware's
CSRFActs == at \in DOMAIN Chain /\ Chain[at] = "CSRF" /\ at' # at

\* the request's cookie and submitted csrf_token do not make a matching pair
NoMatchingPair ==
  req.csrfCookie = "" \/ req.csrfForm = "" \/ req.csrfForm # req.csrfCookie

\* C12 as stated: a POST, PUT or DELETE goes on to the next handler only with a
\* non-empty csrf_token cookie and an equal submitted token; without such a pair it is
\* answered 403 and the next handler is not invoked
C12_UnsafeWithoutPairIs403 ==
  [][(CSRFActs /\ req.method \in {"POST", "PUT", "DELETE"})
       => /\ at' = at + 1 => ~NoMatchingPair
          /\ NoMatchingPair => (at' = Served /\ resp'.status = 403 /\ ~seen'.reached)]_vars

\* C12, amended: without a matching pair the request is rejected and the next handler
\* is not invoked; the rejection is 403, or 400 when the form cannot be parsed, or 500
\* when no cookie came and the token could not be generated
C12_UnsafeWithoutPairIsRejected ==
  [][(CSRFActs /\ req.method \in {"POST", "PUT", "DELETE"})
       => /\ at' = at + 1 => ~NoMatchingPair
          /\ NoMatchingPair =>
               /\ at' = Served /\ ~seen'.reached
               /\ resp'.status \in {400, 403, 500}
               /\ resp'.status = 500 => req.csrfCookie = ""]_vars

\* a DELETE whose submitted token differs from its cookie was answered 403
C12_Witness ==
  /\ at = Served /\ ran # << >> /\ ran[Len(ran)] = "CSRF"
  /\ req.method = "DELETE" /\ req.csrfCookie = "k1" /\ req.csrfForm = "k2"
  /\ resp.status = 403 /\ ~seen.reached

\* C13: CSRFMiddleware never answers a GET 403 or 400, whatever cookie and form
\* values it carries; unless the token could not be generated (500, no cookie came)
\* it invokes the next handler with a non-empty token in the context
C13_GetIsNeverRejected ==
  [][(CSRFActs /\ req.method = "GET")
       => /\ resp'.status \notin {400, 403}
          /\ resp'.status = 500 => req.csrfCookie = ""
          /\ resp'.status # 500 => (at' = at + 1 /\ ctx'.csrf # "")]_vars

\* a GET whose form token differs from its cookie passed CSRFMiddleware
C13_Witness ==
  /\ req.method = "GET" /\ req.csrfCookie = "k1" /\ req.csrfForm = "k2"
  /\ ran # << >> /\ ran[Len(ran)] = "CSRF" /\ at # Served
  /\ ctx.csrf = "k1"

\* C14: a POST, PUT or DELETE with the cookie's token in the X-CSRF-Token header and
\* no csrf_token form field (the form parses) passes CSRFMiddleware
C14_HeaderTokenPasses ==
  [][(/\ CSRFActs /\ req.method \in {"POST", "PUT", "DELETE"}
      /\ req.csrfCookie # "" /\ req.csrfHeader = req.csrfCookie /\ req.csrfForm = ""
      /\ resp'.status # 400)
       => at' = at + 1]_vars

\* the csrf_token cookie the browser holds after the response
BrowserToken == IF resp.csrfSet # "" THEN resp.csrfSet ELSE req.csrfCookie

\* C15: with a non-empty csrf_token cookie CSRFMiddleware sets no cookie and passes the
\* cookie's value in the context; otherwise (the token could be generated) it sets a
\* new token as cookie and passes that value; so a handler that is reached sees the
\* token the browser holds after the response
C15_ContextTokenIsBrowserToken ==
  [][/\ CSRFActs =>
          /\ req.csrfCookie # "" =>
               /\ resp'.csrfSet = ""
               /\ at' = at + 1 => ctx'.csrf = req.csrfCookie
          /\ (req.csrfCookie = "" /\ resp'.status # 500) =>
               /\ resp'.csrfSet \in FreshCsrf
               /\ at' = at + 1 => ctx'.csrf = resp'.csrfSet
     /\ seen'.reached => (seen'.csrf # "" /\ seen'.csrf = BrowserToken')]_vars

\* a request without csrf_token cookie reached its handler with the minted token
C15_Witness ==
  /\ seen.reached /\ req.csrfCookie = ""
  /\ resp.csrfSet \in FreshCsrf /\ seen.csrf = resp.csrfSet

\* a tenant slug in any letter case: letters and digits of HostChars
IsSlug(s) == s # << >> /\ \A i \in DOMAIN s : s[i] \in {"w", "A", "x", "8"}

\* nothing, or ":" and a port number
IsPort(s) ==
  \/ s = << >>
  \/ Len(s) > 1 /\ s[1] = ":" /\ \A i \in 2..Len(s) : s[i] = "8"

\* the Host header is <slug>.<root> with an optional port
IsSlugHost(h, slug) ==
  /\ IsSlug(slug)
  /\ Len(h) >= Len(slug) + 1 + Len(Domain)
  /\ SubSeq(h, 1, Len(slug) + 1 + Len(Domain)) = slug \o <<".">> \o Domain
  /\ IsPort(SubSeq(h, Len(slug) + 2 + Len(Domain), Len(h)))

\* the slugs a Host header of the model can begin with
SlugsOf(h) == {SubSeq(h, 1, n) : n \in 1..Len(h)}

\* C16 as stated: for every Host header <slug>.<root>, with or without port and with the
\* slug in any letter case, Resolve returns the lowercased slug and no error
C16_ResolveReturnsSlug ==
  resolved.done =>
    \A slug \in SlugsOf(rHost) :
      IsSlugHost(rHost, slug) => (~resolved.err /\ resolved.sub = ToLower(slug))

\* C16, amended: the same for every slug but the lowercase word www, whose host is
\* the main site
C16_ResolveReturnsSlugButWww ==
  resolved.done =>
    \A slug \in SlugsOf(rHost) :
      (IsSlugHost(rHost, slug) /\ slug # <<"w", "w", "w">>)
        => (~resolved.err /\ resolved.sub = ToLower(slug))

\* Resolve gave "a8" for the Host header A8.x:8
C16_Witness ==
  /\ resolved.done /\ rHost = <<"A", "8", ".", "x", ":", "8">>
  /\ ~resolved.err /\ resolved.sub = <<"a", "8">>

\* the Host header without its port: what precedes the first ":"
PortStripped(h) ==
  LET colons == {i \in DOMAIN h : h[i] = ":"}
  IN IF colons = {} THEN h
     ELSE SubSeq(h, 1, (CHOOSE i \in colons : \A j \in colons : i <= j) - 1)

\* h is <label>.<root> for a non-empty label
IsSubdomainOfRoot(h) ==
  \E n \in 1..Len(h) : SubSeq(h, n + 1, Len(h)) = <<".">> \o Domain

\* C17: Resolve returns an error for every Host header that, without its port, is not
\* the root domain, not www.<root> and not a subdomain <label>.<root>
C17_OtherHostsAreRejected ==
  resolved.done =>
    LET h == PortStripped(rHost)
    IN (h # Domain /\ h # <<"w", "w", "w", ".">> \o Domain /\ ~IsSubdomainOfRoot(h))
         => resolved.err

\* the issued token was presented unchanged to the Validate function of its kind
IssuedPresented ==
  /\ verdict.done
  /\ generated.kind # "none" /\ wire = generated.token
  /\ verdict.by = generated.kind

\* C18: a token generated from an e-mail address, an organization name (tenant id) and
\* an expiry, validated before the expiry second by the function of its kind, gives
\* back the e-mail address and the organization name (tenant id) with ok = true
C18_RoundTrip ==
  (IssuedPresented /\ clock < generated.exp)
    => /\ verdict.ok
       /\ verdict.email = Bytes(generated.email)
       /\ generated.kind = "signup" => verdict.org = Bytes(generated.org)
       /\ generated.kind = "user" => verdict.tenantID = generated.tenantID

\* the signup token of b-c@x.io and "A b" came back whole; so did a user token of
\* tenant 12
C18_Witness ==
  /\ IssuedPresented /\ clock < generated.exp /\ verdict.ok
  /\ \/ /\ generated.kind = "signup"
        /\ generated.org = <<"A", " ", "b">>
        /\ verdict.org = Bytes(<<"A", " ", "b">>)
     \/ /\ generated.kind = "user"
        /\ generated.tenantID = 12 /\ verdict.tenantID = 12

\* C19 as stated: a correctly signed token is rejected whenever the time is at or after
\* its expiry, the expiry second included
C19_RejectedFromExpiry ==
  (IssuedPresented /\ clock >= generated.exp) => ~verdict.ok

\* C19, amended: a correctly signed token is rejected whenever the time is after its
\* expiry second; in the expiry second itself it is still accepted
C19_RejectedAfterExpiry ==
  /\ (IssuedPresented /\ clock > generated.exp) => ~verdict.ok
  /\ (IssuedPresented /\ clock = generated.exp) => verdict.ok

\* an issued token was refused one second after its expiry
C19_Witness ==
  IssuedPresented /\ clock = generated.exp + 1 /\ ~verdict.ok

\* the signature segment of a token string, << >> when it has not two segments
SignatureSegment(s) == IF Len(Split(s, ".")) = 2 THEN Split(s, ".")[2] ELSE << >>

PayloadSegment(s) == IF Len(Split(s, ".")) = 2 THEN Split(s, ".")[1] ELSE << >>

\* C20: a token string whose signature segment differs from the one issued for its
\* payload is rejected
C20_AlteredSignatureIsRejected ==
  (/\ verdict.done /\ generated.kind # "none"
   /\ Len(Split(wire, ".")) = 2
   /\ PayloadSegment(wire) = PayloadSegment(generated.token)
   /\ SignatureSegment(wire) # SignatureSegment(generated.token))
    => ~verdict.ok

\* C21: a token that has not exactly two segments, or a segment of which fails to
\* decode, is refused
C21_UndecodableIsRefused ==
  (/\ verdict.done
   /\ \/ Len(Split(wire, ".")) # 2
      \/ DecodeString(PayloadSegment(wire)).err
      \/ DecodeString(SignatureSegment(wire)).err)
    => ~verdict.ok


\* the stage the request entered last
LastRan == IF ran = << >> THEN "" ELSE ran[Len(ran)]

\* the slug TenantMiddleware resolved for the request, << >> when it resolved none
RequestSlug == IF Resolve(req.host).err THEN << >> ELSE Resolve(req.host).sub

\* slugs of tenant rows that are deactivated or soft-deleted, and whether a slug has no row
InactiveSlugs == {t.subdomain : t \in {x \in tenants : ~x.is_active \/ x.is_deleted}}
HasNoRow(sub) == \A t \in tenants : t.subdomain # sub

\* C22: for the slug of a deactivated or soft-deleted tenant Fetch returns what it
\* returns for a slug without row, and TenantMiddleware writes the same response in
\* both cases: 404, the context left as it was, the handler not reached
C22_InactiveIsUnknown ==
  [][(/\ ran' = Append(ran, "Tenant")
      /\ RequestSlug # << >>
      /\ RequestSlug \in InactiveSlugs \/ HasNoRow(RequestSlug))
       => /\ Fetch(RequestSlug) = {}
          /\ resp' = [resp EXCEPT !.status = 404]
          /\ ctx' = ctx /\ ctx.tenant = 0
          /\ at' = Served
          /\ ~seen'.reached]_vars

\* the store answers and the request for a deactivated tenant's subdomain ended at
\* TenantMiddleware with 404
C22_Witness ==
  /\ failing = "none"
  /\ at = Served /\ LastRan = "Tenant"
  /\ RequestSlug \in {t.subdomain : t \in {x \in tenants : ~x.is_active}}
  /\ resp.status = 404 /\ ~seen.reached

\* the step is one in which the store returned an error to TenantMiddleware's Fetch,
\* to SessionMiddleware's GetSession or to the CreateSession of LoginHandler
StoreFailedInStep ==
  \/ ran' = Append(ran, "Tenant") /\ failing = "fetch" /\ RequestSlug # << >>
  \/ ran' = Append(ran, "Session") /\ failing = "lookup" /\ req.session \notin {NoCookie, ""}
  \/ ran' = Append(ran, "Login") /\ failing = "create" /\ resp'.sessionSet # NoCookie

\* C23: a request in which the tenant fetch, the session lookup or the session
\* creation failed in the store ends there with a 5xx response
C23_StoreFailureAborts ==
  [][StoreFailedInStep => (resp'.status \in 500..599 /\ at' = Served)]_vars

\* the e-mail address a handler takes from the form
FormEmail(f) == ToLower(TrimSpace(f.email))

\* C24: the sessions table changes only in a step of LoginHandler in which the
\* submitted password verified for a verified user of the resolved tenant
C24_OnlyLoginCreatesSessions ==
  [][sessions' # sessions
       => /\ ran' = Append(ran, "Login")
          /\ \E u \in GetUserByEmailAndTenant(FormEmail(seen'.form), ctx.tenant) :
               CompareHashAndPassword(u, seen'.form.password)]_vars

\* a step of LoginHandler on a submitted form
LoginSubmitted == ran' = Append(ran, "Login") /\ req.method # "GET"

\* the verified users of the resolved tenant that have the submitted e-mail address and
\* whose stored hash is the hash of the submitted password
Authenticated ==
  {u \in users : /\ u.is_verified /\ u.tenant_id = ctx.tenant /\ ctx.isTenant = "true"
                 /\ u.email = FormEmail(seen'.form)
                 /\ seen'.form.password = PasswordOf(u)}

\* C25: a login step inserts a session or sets the session cookie only for a verified
\* user of the resolved tenant whose password verified, and does both for such a user
\* when the store answers; the row inserted is the cookie's token bound to that
\* user and to the user's tenant, which is the resolved tenant
C25_LoginIffAuthenticated ==
  [][LoginSubmitted
       => /\ (sessions' # sessions \/ resp'.sessionSet # NoCookie) => Authenticated # {}
          /\ (Authenticated # {} /\ failing = "none")
               => (sessions' # sessions /\ resp'.sessionSet # NoCookie)
          /\ sessions' # sessions
               => \E u \in Authenticated :
                    sessions' = sessions \cup
                      {[token |-> resp'.sessionSet, user_id |-> u.id,
                        tenant_id |-> ctx.tenant, expires_at |-> now + SessionTTL]}]_vars

\* a login on tenant c's domain succeeded: the cookie's token has a row bound to
\* user 1 and tenant 1
C25_Witness ==
  /\ LastRan = "Login" /\ resp.status = 302
  /\ seen.tenant = 1
  /\ \E s \in sessions :
       s.token = resp.sessionSet /\ s.user_id = 1 /\ s.tenant_id = 1

\* C26: while the store answers, GetSession gives for the token of a sessions row the
\* user the row was created for as long as the time is before the row's expiry, which
\* is at most 24 hours ahead, and gives an error from the expiry on; a token without
\* row gives an error
C26_ValidStrictlyBeforeExpiry ==
  failing # "lookup"
    => /\ \A s \in sessions :
            /\ s.expires_at <= now + SessionTTL
            /\ IF now < s.expires_at
               THEN /\ GetSession(s.token) = {u \in users : u.id = s.user_id}
                    /\ GetSession(s.token) # {}
               ELSE GetSession(s.token) = {}
       /\ \A tok \in SessionTokens :
            (\A s \in sessions : s.token # tok) => GetSession(tok) = {}

\* one row has reached its expiry and its token gives an error, another row is still
\* valid and its token gives the row's user
C26_Witness ==
  /\ failing = "none"
  /\ \E s \in sessions : s.expires_at = now /\ GetSession(s.token) = {}
  /\ \E s \in sessions : s.expires_at > now /\ GetSession(s.token) # {}

\* C27: no step removes or changes a sessions row; a step of LogoutHandler clears the
\* cookie and leaves the table as it was, so that GetSession answers for every token
\* as it did before
C27_SessionsAreNeverRevoked ==
  [][/\ \A s \in sessions : s \in sessions'
     /\ ran' = Append(ran, "Logout")
          => /\ sessions' = sessions
             /\ resp'.sessionCleared
             /\ \A tok \in SessionTokens : GetSession(tok)' = GetSession(tok)]_vars

\* a logout was answered and the token its request carried is still a valid session
C27_Witness ==
  /\ at = Served /\ LastRan = "Logout"
  /\ resp.sessionCleared
  /\ req.session \in SessionTokens
  /\ GetSession(req.session) # {}

\* C28: SessionMiddleware writes no status and calls next once; it puts a user into the
\* context only if GetSession gave that user and the request's host is not the domain
\* of another tenant than the user's
C28_SessionAddsOnlyBoundUsers ==
  [][ran' = Append(ran, "Session")
       => /\ at' = at + 1
          /\ resp'.status = resp.status
          /\ ctx'.userID # ctx.userID
               => \E u \in GetSession(req.session) :
                    /\ ctx'.userID = u.id
                    /\ HostTenants = {} \/ u.tenant_id \in HostTenants]_vars

\* the active, not deleted tenant rows whose subdomain is the request's slug
ActiveForRequest ==
  {t \in tenants : t.subdomain = RequestSlug /\ t.is_active /\ ~t.is_deleted}

\* C29: TenantMiddleware either calls next, for a host that resolved to the root domain,
\* with no tenant attached, or to an active tenant, with that tenant attached, or it
\* answers 404 and stops; a domain mismatch and a slug without active tenant get the
\* same response
C29_NextOnlyForRootOrActiveTenant ==
  [][ran' = Append(ran, "Tenant")
       => /\ \/ /\ at' = at + 1 /\ resp' = resp
                /\ ~Resolve(req.host).err
                /\ \/ /\ RequestSlug = << >>
                      /\ ctx' = [ctx EXCEPT !.isTenant = "false"] /\ ctx.tenant = 0
                   \/ \E t \in ActiveForRequest :
                        ctx' = [ctx EXCEPT !.tenant = t.id, !.isTenant = "true"]
             \/ /\ at' = Served /\ ctx' = ctx
                /\ resp' = [resp EXCEPT !.status = 404]
          /\ (Resolve(req.host).err \/ (RequestSlug # << >> /\ ActiveForRequest = {}))
               => at' = Served]_vars

\* a request whose host only ends in the root domain was answered 404 by
\* TenantMiddleware
C29_Witness ==
  /\ at = Served /\ LastRan = "Tenant"
  /\ Resolve(req.host).err
  /\ resp.status = 404 /\ ~seen.reached /\ ctx.isTenant = "unset"

\* C30: no two tenant rows have the same slug or the same subdomain, and every tenant
\* row has slug = subdomain, in lowercase, accepted by subdomainRegex and equal to the
\* subdomain /enroll derives from the row's organization name
C30_SlugsUniqueAndWellFormed ==
  /\ \A t1 \in tenants, t2 \in tenants :
       (t1.slug = t2.slug \/ t1.subdomain = t2.subdomain) => t1 = t2
  /\ \A t \in tenants :
       /\ t.slug = t.subdomain
       /\ \A i \in DOMAIN t.slug : t.slug[i] \in AlnumLower \cup {"-"}
       /\ t.slug # << >> /\ Len(t.slug) <= 63
       /\ t.slug[1] # "-" /\ t.slug[Len(t.slug)] # "-"
       /\ t.slug = ToLower(RemoveSpaces(t.name))

\* /verify or /confirm has provisioned a tenant whose organization name has a capital
\* letter or a space
C30_Witness ==
  \E t \in tenants : t.id # SeedTenant.id /\ t.name # t.slug

\* C31: a request for /dashboard reaches the wrapped handler only with a user in its
\* context, a user for whom the request's session cookie has a sessions row; without
\* user it is redirected to /login?error=auth and the handler is not reached
C31_GuardedHandlerNeedsUser ==
  [][ran' = Append(ran, "Dashboard")
       => IF seen'.reached
          THEN /\ ctx.user # 0 /\ seen'.user = ctx.user
               /\ \E s \in sessions : s.token = req.session /\ s.user_id = ctx.user
          ELSE /\ ctx.user = 0
               /\ resp'.status = 303 /\ resp'.location = "/login?error=auth"
               /\ at' = Served]_vars

\* one request for /dashboard was redirected to the login form
C31_Witness ==
  /\ LastRan = "Dashboard" /\ ~seen.reached
  /\ resp.status = 303 /\ resp.location = "/login?error=auth"


\* the request that has just completed the step from position pos
Stepped(p, pos) == inflight[p].pc = pos /\ inflight'[p].pc # pos

\* C32: between two resets of a RateLimit wrapper at most limit requests of one
\* RemoteAddr reach the wrapped handler; a request counted after limit others of its
\* address is answered 429 and the handler is not called for it; a request that finds
\* more than the window elapsed since the last reset empties every counter, and no
\* other request does
C32_AtMostLimitPerWindow ==
  [][/\ \A a \in RemoteAddrs : reachedNext'[a] <= limit
     /\ \A p \in Reqs :
          /\ Stepped(p, "write") =>
               IF arrivals[inflight[p].ip] >= limit
               THEN /\ inflight'[p].out = "429" /\ inflight'[p].pc = "unlock"
                    /\ reachedNext' = reachedNext
               ELSE inflight'[p].pc = "next"
          /\ Stepped(p, "reset") =>
               IF clock - lastReset > window
               THEN visits' = EmptyVisits /\ lastReset' = clock
               ELSE visits' = visits /\ lastReset' = lastReset
          /\ Stepped(p, "unlock") =>
               (inflight[p].out = "next" \/ inflight[p].out = "429")]_vars

\* after a reset an address has had limit requests served and its next one refused
C32_Witness ==
  /\ lastReset > 0
  /\ \E p \in Reqs : /\ inflight[p].out = "429"
                     /\ reachedNext[inflight[p].ip] = limit
                     /\ visits[inflight[p].ip] = limit + 1


\* the positions between rl.mu.Lock() and the deferred rl.mu.Unlock()
Locked == {"reset", "read", "write", "next", "unlock"}

\* C33: a request between the lock and the deferred unlock of RateLimit, the call of
\* the wrapped handler included, holds the mutex, so only the holder reads or writes
\* visits and lastReset; every counter equals the number of requests counted for its
\* address since the reset (no increment is lost); at most one request is inside the
\* wrapped handler
C33_MutexHeldThroughHandler ==
  /\ \A p \in Reqs : inflight[p].pc \in Locked => mu = p
  /\ \A a \in RemoteAddrs : visits[a] = arrivals[a]
  /\ Cardinality({p \in Reqs : inflight[p].pc = "next"}) <= 1

\* one request is inside the wrapped handler while another of the same address waits
\* for the mutex
C33_Witness ==
  \E p, q \in Reqs :
    /\ p # q /\ inflight[p].ip = inflight[q].ip
    /\ inflight[p].pc = "next" /\ mu = p
    /\ inflight[q].pc = "lock"
    /\ visits[inflight[p].ip] > 1


\* the two hosts of the main site
RootHosts == {Domain, <<"w", "w", "w", ".">> \o Domain}

\* C34: Resolve returns the empty slug without error only for a Host header that,
\* without its port, is the root domain or www.<root>; every other Host header it
\* accepts gives a non-empty slug
C34_EmptySlugOnlyForRoot ==
  (resolved.done /\ ~resolved.err)
    => (resolved.sub = << >> <=> PortStripped(rHost) \in RootHosts)


\* C35: for every root domain LoadDefaultConfig can configure, the default included,
\* Resolve answers the Host header equal to that domain with the empty slug and no
\* error, and the Host header <slug>.<domain> with that slug and no error
C35_ConfiguredRootResolves ==
  resolved.done =>
    /\ rHost = rDomain => (~resolved.err /\ resolved.sub = << >>)
    /\ \A slug \in ConfigSlugs :
         rHost = slug \o <<".">> \o rDomain => (~resolved.err /\ resolved.sub = slug)


\* C36: a token generated by GenerateSignupToken and presented unchanged is refused
\* by ValidateUserToken, and one generated by GenerateUserToken is refused by
\* ValidateSignupToken
C36_TokenKindsAreDisjoint ==
  (verdict.done /\ generated.kind # "none" /\ wire = generated.token
     /\ verdict.by # generated.kind)
    => ~verdict.ok


\* C37: a password-reset token changes a password at most once, whether the
\* submissions carrying it follow each other or overlap
C37_TokenResetsOnce == \A t \in DOMAIN applied : applied[t] <= 1


\* the pending user signups of one e-mail address in one tenant
PendingOfPair(email, tid) == {r \in pendingU : r.email = email /\ r.tenant_id = tid}

\* C38: pending_user_signups never holds two rows of one (email, tenant_id), and a
\* registration adds a row only for a pair that has none, expired or not, also when
\* registrations of the pair overlap
C38_OnePendingRowPerPair ==
  [][/\ \A r \in pendingU' : PendingOfPair(r.email, r.tenant_id)' = {r}
     /\ \A r \in pendingU' \ pendingU : PendingOfPair(r.email, r.tenant_id) = {}]_vars

\* two registrations of one pair overlap: both have counted no row, one has inserted
\* its row and waits to commit, the other is about to insert
C38_Witness ==
  \E p, q \in Reqs :
    /\ p # q
    /\ pc[p] = "r_commit" /\ pc[q] = "r_insert"
    /\ loc[p].email = loc[q].email /\ loc[p].tid = loc[q].tid
    /\ tx[p].pendU # {}

====
